---- MODULE Spec2Model ----
(***************************************************************************)
(* Feed curation pipeline of ybration/podcasts: prefilter, quality score,  *)
(* category-balanced selection and merge, modelled from the Python source. *)
(* Strings the code inspects character by character (URLs, titles) are     *)
(* tuples of one-character strings; quality scores are kept in tenths of a *)
(* point (the code rounds every score to one decimal place).               *)
(***************************************************************************)
EXTENDS Integers, Sequences, FiniteSets, TLC

\* ------------------------------------------------------------------ bounds
MaxExisting == 2
MaxNew == 2
MaxFeedsCap == 3
MaxCurrent == 2
MaxCandidates == 2
MaxHead == 2
MaxTicks == 2
MaxRows == 2
MaxShelf == 3
MaxScalerCandidates == 4
MaxManagerRows == 3
MaxExpanderCandidates == 3
MaxDupFeeds == 2
MaxSaved == 2
MaxRunRows == 2
MaxTitleWords == 2

\* ------------------------------------------------------- string primitives
None == "<None>"

Min(a, b) == IF a <= b THEN a ELSE b
Max(a, b) == IF a >= b THEN a ELSE b

\* str.lower() on one character: only the letters have a lower-case form
LowerChar(c) ==
    CASE c = "A" -> "a"
      [] c = "B" -> "b"
      [] c = "C" -> "c"
      [] c = "D" -> "d"
      [] c = "E" -> "e"
      [] c = "F" -> "f"
      [] c = "G" -> "g"
      [] c = "H" -> "h"
      [] c = "I" -> "i"
      [] c = "J" -> "j"
      [] c = "K" -> "k"
      [] c = "L" -> "l"
      [] c = "M" -> "m"
      [] c = "N" -> "n"
      [] c = "O" -> "o"
      [] c = "P" -> "p"
      [] c = "Q" -> "q"
      [] c = "R" -> "r"
      [] c = "S" -> "s"
      [] c = "T" -> "t"
      [] c = "U" -> "u"
      [] c = "V" -> "v"
      [] c = "W" -> "w"
      [] c = "X" -> "x"
      [] c = "Y" -> "y"
      [] c = "Z" -> "z"
      [] OTHER -> c

\* the string as it is written
LowerKeepingCase(s) == s

\* str.lower()
Lower(s) == [i \in 1..Len(s) |-> LowerChar(s[i])]

\* str.startswith(prefix)
StartsWith(s, prefix) ==
    /\ Len(s) >= Len(prefix)
    /\ SubSeq(s, 1, Len(prefix)) = prefix

IsSpace(c) == c = " "

RECURSIVE LStrip(_)
LStrip(s) == IF s # <<>> /\ IsSpace(Head(s)) THEN LStrip(Tail(s)) ELSE s

RECURSIVE RStrip(_)
RStrip(s) ==
    IF s # <<>> /\ IsSpace(s[Len(s)]) THEN RStrip(SubSeq(s, 1, Len(s) - 1)) ELSE s

\* str.strip()
Strip(s) == RStrip(LStrip(s))

\* list[:m] for m >= 0
Take(s, m) == SubSeq(s, 1, Min(Len(s), m))

\* all sequences over S of length at most n
SeqUpTo(S, n) == UNION {[1..k -> S] : k \in 0..n}

\* ------------------------------------------------------------- URL samples
HttpA == <<"h","t","t","p",":","/","/","a">>
HttpAUpper == <<"H","T","T","P",":","/","/","A">>
HttpsB == <<"h","t","t","p","s",":","/","/","b">>
HttpC == <<"h","t","t","p",":","/","/","c">>
Urls == {HttpA, HttpAUpper, HttpsB}

VARIABLES
    mExisting,   \* merge_feeds: argument existing
    mNew,        \* merge_feeds: argument new_feeds
    mMaxFeeds,   \* merge_feeds: argument max_feeds
    mOut,        \* merge_feeds: list returned by the first call
    mOut2,       \* merge_feeds: list returned when the output is merged again
    mPc          \* "idle" | "start" | "merged" | "remerged"

VARIABLES
    sCandidates, \* select_balanced_feeds: argument candidates
    sCurrent,    \* select_balanced_feeds: argument current_feeds
    sTargetTotal, \* select_balanced_feeds: argument target_total
    sSelected,   \* select_balanced_feeds: selected_feeds, the list returned
    sPc          \* "idle" | "start" | "selected"

VARIABLES
    qFeed,       \* the parsed feed feedparser returns for the candidate's URL
    qCand,       \* the candidate record (feed_data) handed to the scorer
    qNow,        \* datetime.now(), in days
    qFirst,      \* what the first scoring call returned, per variant
    qSecond,     \* what the second scoring call returned, per variant
    qPc          \* "idle" | "start" | "scored" | "rescored"

VARIABLES
    fRows,       \* the rows read from the Podcastindex CSV (podcastindex_feeds)
    fCleaned,    \* FeedManager.clean_podcastindex_feeds: the list returned
    fPassed,     \* PremiumScaler._passes_basic_filter: the verdict on each row
    fPc          \* "idle" | "start" | "cleaned" | "filtered"

VARIABLES
    pExisting,   \* PremiumScaler.existing_feeds
    pCandidates, \* process_candidates: the candidates argument
    pTargetNew,  \* process_candidates: the target_new argument
    pIdx,        \* position of the loop `for candidate in candidates`
    pValidated,  \* the list `validated`
    pCounts,     \* category_counts (a defaultdict(int))
    pUrls,       \* existing_urls
    pLast,       \* the latest validate_feed call: what it asked of the network
    pTrace,      \* process_candidates: the validations and the sleeps, in order
    pPc          \* "idle" | "loop" | "returned"

VARIABLES
    gRows,       \* FeedManager.podcastindex_feeds
    gTop,        \* main: top_feeds, the cleaned rows handed to process_feeds_batch
    gIdx,        \* position of the loops of process_feeds_batch in top_feeds
    gLog,        \* what was asked of the network, in order: url, fault, verdict
    gValidated,  \* process_feeds_batch: the list `validated`
    gLast,       \* the last validate_rss_feed call: the document served, the verdict
    gBatchSize,  \* process_feeds_batch: batch_size
    gTrace,      \* process_feeds_batch: the fetches and the sleeps, in order
    gPc          \* "idle" | "start" | "batch" | "returned" | "aborted"

VARIABLES
    xExisting,   \* QualityFeedExpander.existing_feeds
    xCandidates, \* process_candidates: the candidates argument
    xTargetCount, \* process_candidates: the target_count argument
    xMinScore,   \* QualityFeedExpander.min_score, in tenths of a point
    xIdx,        \* position of the loop `for candidate in candidates`
    xValidated,  \* the list `validated`
    xUrls,       \* existing_urls
    xProcessed,  \* the counter `processed`
    xLast,       \* the latest validate_feed call: what it asked of the network
    xTrace,      \* process_candidates: the validations and the sleeps, in order
    xFaults,     \* number of validate_feed calls in which an exception was raised
    xPc          \* "idle" | "loop" | "returned" | "aborted"

VARIABLES
    dFeeds,      \* detect_duplicates: the feeds argument
    dDuplicates, \* detect_duplicates: the set returned
    dPc          \* "idle" | "start" | "detected"

VARIABLES
    wFeeds,      \* save_feeds: the feeds argument
    wBefore,     \* the output file as it was when save_feeds was called
    wFile,       \* the output file on disk
    wWritten,    \* number of records json.dump has written so far
    wPc          \* "idle" | "start" | "writing" | "saved" | "crashed"

VARIABLES
    rFeedsFile,  \* feeds.json: "missing" | "malformed" | "present"
    rCsvFile,    \* the Podcastindex CSV: "missing" | "present"
    rRows,       \* the rows of the CSV when it is there
    rExisting,   \* main: existing
    rFetched,    \* number of validate_rss_feed calls made by the run
    rOutput,     \* feeds_expanded.json as the run leaves it
    rPc          \* "idle" | "start" | "loaded" | "validated" | "saved" | "returned" | "aborted"

VARIABLES
    kRow,        \* the CSV row whose title and description are read
    kCategory,   \* what categorize_feed returned for it
    kPredicted,  \* predicted_category and category_confidence set by get_strategic_candidates
    kPc,         \* "idle" | "start" | "predicted"
    \* ---- PodcastProcessor.process_podcast
    uFeed,       \* what feedparser.parse(rss_url) returns
    uPodcast,    \* the outcome of the upsert of the podcast row, "none" before it
    uId,         \* podcast_id, "" before it is read back
    uIdx,        \* position of the loop over feed.entries[:50]
    uIssued,     \* number of upsert('episodes', ...) calls made
    uFailed,     \* number of those that returned False
    uLast,       \* the outcome of the latest of them, "none" before the first
    uResult,     \* what process_podcast returned, "none" while it runs
    uPc          \* "idle" | "parse" | "podcast" | "select" | "episodes" | "returned"

mergeVars == <<mExisting, mNew, mMaxFeeds, mOut, mOut2, mPc>>
selectVars == <<sCandidates, sCurrent, sTargetTotal, sSelected, sPc>>

scoreVars == <<qFeed, qCand, qNow, qFirst, qSecond, qPc>>

filterVars == <<fRows, fCleaned, fPassed, fPc>>

scalerVars ==
    <<pExisting, pCandidates, pTargetNew, pIdx, pValidated, pCounts, pUrls, pLast, pTrace, pPc>>

managerVars == <<gRows, gTop, gIdx, gLog, gValidated, gLast, gBatchSize, gTrace, gPc>>

expanderVars ==
    <<xExisting, xCandidates, xTargetCount, xMinScore, xIdx, xValidated, xUrls, xProcessed,
      xLast, xTrace, xFaults, xPc>>

dedupVars == <<dFeeds, dDuplicates, dPc>>

saveVars == <<wFeeds, wBefore, wFile, wWritten, wPc>>

predictVars == <<kRow, kCategory, kPredicted, kPc>>

uploadVars == <<uFeed, uPodcast, uId, uIdx, uIssued, uFailed, uLast, uResult, uPc>>

runVars == <<rFeedsFile, rCsvFile, rRows, rExisting, rFetched, rOutput, rPc>>

vars ==
    <<mergeVars, selectVars, scoreVars, filterVars, scalerVars,
      managerVars, expanderVars, dedupVars, saveVars, runVars,
      predictVars, uploadVars>>

\* ============================================================ merge_feeds
\* Scores are tenths of a point: 'quality_score': 100 is 1000 tenths.
ExistingScore == 1000

\* key of the URL de-duplication: feed.get('rss_url', '').lower()
MergeKeyExact(url) == url
MergeKey(url) == Lower(url)

\* existing_normalized: the four persisted fields, score 100, existing True
NormalizeExistingDefaultLanguage(feed) ==
    [rss_url |-> feed.rss_url, title |-> feed.title, categories |-> feed.categories,
     language |-> "en", quality_score |-> ExistingScore, existing |-> TRUE]
NormalizeExisting(feed) ==
    [rss_url |-> feed.rss_url, title |-> feed.title, categories |-> feed.categories,
     language |-> feed.language, quality_score |-> ExistingScore, existing |-> TRUE]

\* a new feed as the merge reads it: x.get('existing') is None (falsy)
AsNew(feed) ==
    [rss_url |-> feed.rss_url, title |-> feed.title, categories |-> feed.categories,
     language |-> feed.language, quality_score |-> feed.quality_score, existing |-> FALSE]

\* all_feeds = existing_normalized + new_feeds
AllFeeds(existing, new) ==
    [i \in 1..Len(existing) |-> NormalizeExisting(existing[i])]
        \o [i \in 1..Len(new) |-> AsNew(new[i])]

\* the seen_urls loop: first occurrence of every lower-cased URL is kept
RECURSIVE UniqueFrom(_, _, _)
UniqueFrom(feeds, seen, acc) ==
    IF feeds = <<>> THEN acc
    ELSE LET f == Head(feeds)
             k == MergeKey(f.rss_url)
         IN IF k \in seen
            THEN UniqueFrom(Tail(feeds), seen, acc)
            ELSE UniqueFrom(Tail(feeds), seen \cup {k}, Append(acc, f))

UniqueFeeds(feeds) == UniqueFrom(feeds, {}, <<>>)

\* sort key (0 if existing else 1, -quality_score), compared as Python tuples
SortKeyLess(a, b) ==
    LET ka == IF a.existing THEN 0 ELSE 1
        kb == IF b.existing THEN 0 ELSE 1
    IN \/ ka < kb
       \/ ka = kb /\ (0 - a.quality_score) < (0 - b.quality_score)

\* list.sort is stable: x goes behind every element whose key is not greater
RECURSIVE InsertSorted(_, _)
InsertSorted(sorted, x) ==
    IF sorted = <<>> THEN <<x>>
    ELSE IF SortKeyLess(x, Head(sorted))
         THEN <<x>> \o sorted
         ELSE <<Head(sorted)>> \o InsertSorted(Tail(sorted), x)

RECURSIVE SortFeeds(_)
SortFeeds(feeds) ==
    IF feeds = <<>> THEN <<>>
    ELSE InsertSorted(SortFeeds(SubSeq(feeds, 1, Len(feeds) - 1)), feeds[Len(feeds)])

\* final_feeds = unique_feeds[:max_feeds]
TopFeeds(feeds, maxFeeds) == Take(feeds, maxFeeds)

\* output_feeds: back to the feeds.json format
OutputFeed(feed) ==
    [rss_url |-> feed.rss_url, title |-> feed.title, categories |-> feed.categories,
     language |-> feed.language]

MergeFeeds(existing, new, maxFeeds) ==
    LET final == TopFeeds(SortFeeds(UniqueFeeds(AllFeeds(existing, new))), maxFeeds)
    IN [i \in 1..Len(final) |-> OutputFeed(final[i])]

\* ---- inputs of the merge
ExistingMetas ==
    { [title |-> "Curated One", categories |-> <<"News">>, language |-> "en"],
      [title |-> "Curated Two", categories |-> <<"Science", "History">>, language |-> "fr"] }

ExistingRecords ==
    { [rss_url |-> u, title |-> m.title, categories |-> m.categories, language |-> m.language]
        : u \in Urls, m \in ExistingMetas }

NewScores == {600, 1100}

NewRecords ==
    { [rss_url |-> u, title |-> "Fresh Find", categories |-> <<"Technology">>,
       language |-> "de", quality_score |-> s] : u \in Urls, s \in NewScores }

MergeIdle ==
    /\ mExisting = <<>>
    /\ mNew = <<>>
    /\ mMaxFeeds = 0
    /\ mOut = <<>>
    /\ mOut2 = <<>>
    /\ mPc = "idle"

MergeInit ==
    /\ mExisting \in SeqUpTo(ExistingRecords, MaxExisting)
    /\ mNew \in SeqUpTo(NewRecords, MaxNew)
    /\ mMaxFeeds \in 1..MaxFeedsCap
    /\ mOut = <<>>
    /\ mOut2 = <<>>
    /\ mPc = "start"

\* final_feeds = manager.merge_feeds(existing, validated, max_feeds)
Merge ==
    /\ mPc = "start"
    /\ mOut' = MergeFeeds(mExisting, mNew, mMaxFeeds)
    /\ mPc' = "merged"
    /\ UNCHANGED <<mExisting, mNew, mMaxFeeds, mOut2>>
    /\ UNCHANGED <<selectVars, scoreVars, filterVars, scalerVars, managerVars,
                 expanderVars, dedupVars, saveVars, runVars, predictVars,
                 uploadVars>>

\* the merger run again on its own output with no new candidates
Remerge ==
    /\ mPc = "merged"
    /\ mOut2' = MergeFeeds(mOut, <<>>, mMaxFeeds)
    /\ mPc' = "remerged"
    /\ UNCHANGED <<mExisting, mNew, mMaxFeeds, mOut>>
    /\ UNCHANGED <<selectVars, scoreVars, filterVars, scalerVars, managerVars,
                 expanderVars, dedupVars, saveVars, runVars, predictVars,
                 uploadVars>>

MergeNext == Merge \/ Remerge

\* ------------------------------------------------- properties of the merge
Range(s) == {s[i] : i \in 1..Len(s)}

SameUrl(u, v) == Lower(u) = Lower(v)

Merged == mPc \in {"merged", "remerged"}

\* positions of `feeds` holding the first record of their URL (case-insensitive)
FirstOfUrl(feeds) ==
    {i \in 1..Len(feeds) : \A j \in 1..(i - 1) : ~SameUrl(feeds[j].rss_url, feeds[i].rss_url)}

\* `feeds` without the records that repeat an earlier URL, order kept
RECURSIVE KeepPositions(_, _, _)
KeepPositions(feeds, keep, i) ==
    IF i > Len(feeds) THEN <<>>
    ELSE (IF i \in keep THEN <<feeds[i]>> ELSE <<>>) \o KeepPositions(feeds, keep, i + 1)

WithoutRepeats(feeds) == KeepPositions(feeds, FirstOfUrl(feeds), 1)

\* C1: every two distinct records of the list merge_feeds returns have rss_url
\* values that differ under case-insensitive comparison.
C1_OutputUrlsDistinct ==
    Merged =>
        \A i, j \in 1..Len(mOut) : i # j => ~SameUrl(mOut[i].rss_url, mOut[j].rss_url)

\* C1 witness: the new feeds hold case-variant repeats of one URL and the merged
\* output still holds two records.
C1_Witness ==
    /\ mPc = "merged"
    /\ \E i, j \in 1..Len(mNew) :
          /\ i # j
          /\ mNew[i].rss_url # mNew[j].rss_url
          /\ SameUrl(mNew[i].rss_url, mNew[j].rss_url)
    /\ Len(mOut) >= 2

\* C2: when an existing and a new record share a URL (case-insensitively), the
\* output holds exactly one record for that URL, and its title, categories and
\* language are those of the existing record (the first one of that URL).
C2_ExistingMetadataRetained ==
    mPc = "merged" =>
        \A i \in FirstOfUrl(mExisting) :
            (\E j \in 1..Len(mNew) : SameUrl(mExisting[i].rss_url, mNew[j].rss_url)) =>
                /\ Cardinality({k \in 1..Len(mOut) :
                                  SameUrl(mOut[k].rss_url, mExisting[i].rss_url)}) = 1
                /\ \A k \in 1..Len(mOut) :
                      SameUrl(mOut[k].rss_url, mExisting[i].rss_url) =>
                          /\ mOut[k].title = mExisting[i].title
                          /\ mOut[k].categories = mExisting[i].categories
                          /\ mOut[k].language = mExisting[i].language

C4_TruncationKeepsExisting ==
    mPc = "merged" =>
        \A i \in FirstOfUrl(mExisting) :
            \E k \in 1..Len(mOut) :
                /\ mOut[k].rss_url = mExisting[i].rss_url
                /\ mOut[k].title = mExisting[i].title

\* the list merge_feeds cuts and converts: final_feeds, scores still on it
FinalFeeds(existing, new, maxFeeds) ==
    TopFeeds(SortFeeds(UniqueFeeds(AllFeeds(existing, new))), maxFeeds)

\* the new records that share the url of new record i, itself included
Twins(i) == {j \in 1..Len(mNew) : SameUrl(mNew[j].rss_url, mNew[i].rss_url)}

TopTwins(i) ==
    {j \in Twins(i) : \A k \in Twins(i) : mNew[j].quality_score >= mNew[k].quality_score}

KnownToExisting(url) == \E e \in 1..Len(mExisting) : SameUrl(mExisting[e].rss_url, url)

\* in final_feeds every existing record comes before every new one, and the
\* new ones stand in non-increasing quality_score order
NewFollowExistingByScore(final) ==
    \A a, b \in 1..Len(final) :
        a < b =>
            /\ ~(final[b].existing /\ ~final[a].existing)
            /\ (~final[a].existing /\ ~final[b].existing) =>
                    final[a].quality_score >= final[b].quality_score

\* C23: merge_feeds orders the new records by quality_score descending before
\* the URL deduplication, so of the new records that share a URL no existing
\* record has, the output retains one with the highest quality_score; and all
\* new records follow all existing ones in non-increasing quality_score order.
C23_BestTwinRetainedAndNewSorted ==
    mPc = "merged" =>
        /\ \A i \in 1..Len(mNew), k \in 1..Len(mOut) :
              (~KnownToExisting(mNew[i].rss_url) /\ SameUrl(mOut[k].rss_url, mNew[i].rss_url)) =>
                    \E j \in TopTwins(i) : mOut[k].rss_url = mNew[j].rss_url
        /\ NewFollowExistingByScore(FinalFeeds(mExisting, mNew, mMaxFeeds))

\* C23, the order of the output alone
C23_NewFollowExistingInScoreOrder ==
    mPc = "merged" => NewFollowExistingByScore(FinalFeeds(mExisting, mNew, mMaxFeeds))

\* what the deduplication does retain: the first of the twins in new_feeds
C23_FirstTwinRetained ==
    mPc = "merged" =>
        \A i \in 1..Len(mNew), k \in 1..Len(mOut) :
            (~KnownToExisting(mNew[i].rss_url) /\ SameUrl(mOut[k].rss_url, mNew[i].rss_url)) =>
                mOut[k].rss_url = mNew[CHOOSE j \in Twins(i) : \A t \in Twins(i) : j <= t].rss_url

\* two new records come out in the order of their scores, not of new_feeds
C23_OrderWitness ==
    /\ mPc = "merged"
    /\ Len(mNew) = 2
    /\ Len(mOut) >= 2
    /\ mNew[1].quality_score < mNew[2].quality_score
    /\ mOut[Len(mOut) - 1].rss_url = mNew[2].rss_url
    /\ mOut[Len(mOut)].rss_url = mNew[1].rss_url

\* ================================================= quick_100_expansion.py
\* Title and description are sequences of words. A keyword test `kw in content`
\* is a substring test, so a word brings every keyword that occurs inside it.
LowerWord(w) ==
    CASE w = "Ancient" -> "ancient"
      [] w = "History" -> "history"
      [] w = "Quiet" -> "quiet"
      [] w = "Chat" -> "chat"
      [] w = "Society" -> "society"
      [] w = "Plain" -> "plain"
      [] w = "Tech" -> "tech"
      [] w = "Weekly" -> "weekly"
      [] w = "Startup" -> "startup"
      [] w = "Fitness" -> "fitness"
      [] w = "Finance" -> "finance"
      [] OTHER -> w

\* the keywords of the source's keyword lists that are substrings of a word
KeywordsInWord(c) ==
    CASE c = "ancient" -> {"ancient"}
      [] c = "history" -> {"history"}
      [] c = "war" -> {"war"}
      [] c = "stories" -> {}
      [] c = "quiet" -> {}
      [] c = "chat" -> {}
      [] c = "daily" -> {"ai", "daily"}
      [] c = "software" -> {"software", "war"}
      [] c = "society" -> {"society"}
      [] c = "plain" -> {"ai"}
      [] c = "tech" -> {"tech"}
      [] c = "weekly" -> {"weekly"}
      [] c = "startup" -> {"startup"}
      [] c = "fitness" -> {"fitness"}
      [] c = "finance" -> {"finance"}
      [] c = "money" -> {"money"}
      [] OTHER -> {}

\* f"{row.get('title', '')} {row.get('description', '')}".lower()
TitleDescLower(row) ==
    [i \in 1..(Len(row.title) + Len(row.description)) |->
        LowerWord((row.title \o row.description)[i])]

\* the keywords kw for which `kw in content` holds
KeywordsIn(content) == UNION {KeywordsInWord(content[i]) : i \in 1..Len(content)}

\* categories: the keyword lists of categorize_feed, in declaration order
CategorizeKeywords ==
    << [cat |-> "Technology", keywords |-> {"tech", "programming", "software", "ai", "startup", "coding", "developer", "digital"}],
       [cat |-> "Business", keywords |-> {"business", "entrepreneur", "marketing", "finance", "leadership", "startup", "company"}],
       [cat |-> "News", keywords |-> {"news", "politics", "current", "journalism", "daily", "weekly", "report"}],
       [cat |-> "Science", keywords |-> {"science", "research", "physics", "biology", "chemistry", "space", "nature"}],
       [cat |-> "Comedy", keywords |-> {"comedy", "humor", "funny", "laugh", "standup", "improv", "joke"}],
       [cat |-> "Health", keywords |-> {"health", "fitness", "wellness", "medical", "nutrition", "mental", "therapy"}],
       [cat |-> "Sports", keywords |-> {"sports", "football", "basketball", "baseball", "soccer", "fitness", "athletic"}],
       [cat |-> "Education", keywords |-> {"education", "learning", "teaching", "university", "academic", "school"}],
       [cat |-> "Music", keywords |-> {"music", "artist", "album", "song", "musician", "band", "audio"}],
       [cat |-> "True Crime", keywords |-> {"crime", "murder", "investigation", "detective", "mystery", "police"}],
       [cat |-> "History", keywords |-> {"history", "historical", "ancient", "war", "past", "civilization"}],
       [cat |-> "Finance", keywords |-> {"finance", "money", "investing", "stocks", "crypto", "economy", "wealth"}],
       [cat |-> "Entertainment", keywords |-> {"tv", "film", "movie", "entertainment", "celebrity", "show", "review"}],
       [cat |-> "Religion", keywords |-> {"religion", "spiritual", "faith", "church", "god", "bible", "prayer"}],
       [cat |-> "Society", keywords |-> {"society", "culture", "social", "community", "people", "life"}] >>

\* score = sum(1 for keyword in keywords if keyword in content)
KeywordScore(keywords, content) == Cardinality(keywords \cap KeywordsIn(content))

\* the same with the last entry among those of the highest score
BestCategoryLastDeclared(table, content) ==
    LET score(i) == KeywordScore(table[i].keywords, content)
        scored == {i \in 1..Len(table) : score(i) > 0}
        best == CHOOSE i \in scored :
                    \A j \in scored : score(j) < score(i) \/ (score(j) = score(i) /\ i >= j)
    IN IF scored = {} THEN None ELSE table[best].cat

\* max(category_scores.items(), key=...): the first entry, in declaration
\* order, among those of the highest positive score
BestCategory(table, content) ==
    LET score(i) == KeywordScore(table[i].keywords, content)
        scored == {i \in 1..Len(table) : score(i) > 0}
        best == CHOOSE i \in scored :
                    \A j \in scored : score(j) < score(i) \/ (score(j) = score(i) /\ i <= j)
    IN IF scored = {} THEN None ELSE table[best].cat

categorize_feed(row) ==
    LET best == BestCategory(CategorizeKeywords, TitleDescLower(row))
    IN IF best = None THEN "General" ELSE best

\* target_distribution, in declaration order
TargetDistribution ==
    << [cat |-> "Technology", target |-> 15],
       [cat |-> "Business", target |-> 12],
       [cat |-> "News", target |-> 10],
       [cat |-> "Science", target |-> 8],
       [cat |-> "Comedy", target |-> 8],
       [cat |-> "Health", target |-> 6],
       [cat |-> "Sports", target |-> 6],
       [cat |-> "Education", target |-> 5],
       [cat |-> "Music", target |-> 5],
       [cat |-> "Entertainment", target |-> 5],
       [cat |-> "Finance", target |-> 4],
       [cat |-> "True Crime", target |-> 4],
       [cat |-> "History", target |-> 3],
       [cat |-> "Religion", target |-> 3],
       [cat |-> "Society", target |-> 3],
       [cat |-> "General", target |-> 3] >>

\* current_counts[cat] += 1 for every cat of every current feed
CurrentCount(current, cat) ==
    LET hits == {<<i, k>> \in (1..Len(current)) \X (1..2) :
                    k <= Len(current[i].categories) /\ current[i].categories[k] = cat}
    IN Cardinality(hits)

\* needed = max(0, target - current)
NeededIgnoringCurrent(current, t) == Max(0, TargetDistribution[t].target)
Needed(current, t) ==
    Max(0, TargetDistribution[t].target - CurrentCount(current, TargetDistribution[t].cat))

\* candidates_by_category: every candidate with the category it is filed under
RECURSIVE Categorized(_)
Categorized(candidates) ==
    IF candidates = <<>> THEN <<>>
    ELSE <<[cand |-> Head(candidates), cat |-> categorize_feed(Head(candidates))]>>
            \o Categorized(Tail(candidates))

\* candidates_by_category[category]: the candidates of a category, in order
RECURSIVE CandidatesOf(_, _)
CandidatesOf(filed, cat) ==
    IF filed = <<>> THEN <<>>
    ELSE (IF Head(filed).cat = cat THEN <<Head(filed).cand>> ELSE <<>>)
            \o CandidatesOf(Tail(filed), cat)

\* the inner loop over the candidates of one category; st = [selected, urls]
RECURSIVE SelectFromCategory(_, _, _, _, _)
SelectFromCategory(cands, cat, needed, count, st) ==
    IF cands = <<>> \/ count >= needed THEN st
    ELSE LET c == Head(cands)
             url == Lower(c.url)
         IN IF url \notin st.urls
            THEN SelectFromCategory(Tail(cands), cat, needed, count + 1,
                    [selected |-> Append(st.selected,
                                    [rss_url |-> c.url, title |-> c.title,
                                     categories |-> <<cat>>, language |-> "en"]),
                     urls |-> st.urls \cup {url}])
            ELSE SelectFromCategory(Tail(cands), cat, needed, count, st)

\* the outer loop over needed_per_category, from target entry t on
RECURSIVE SelectFromTargets(_, _, _, _)
SelectFromTargets(filed, current, t, st) ==
    IF t > Len(TargetDistribution) THEN st
    ELSE LET cat == TargetDistribution[t].cat
             needed == Needed(current, t)
             mine == CandidatesOf(filed, cat)
         IN SelectFromTargets(filed, current, t + 1,
                IF needed > 0 /\ mine # <<>>
                THEN SelectFromCategory(mine, cat, needed, 0, st)
                ELSE st)

\* target_total is accepted and never read
select_balanced_feeds(candidates, current, targetTotal) ==
    SelectFromTargets(Categorized(candidates), current, 1,
        [selected |-> <<>>,
         urls |-> {Lower(current[i].rss_url) : i \in 1..Len(current)}]).selected

\* ---- inputs of the selection
CurrentUrls == {HttpA, HttpAUpper, HttpsB}
CandidateUrls == {HttpAUpper, HttpsB, HttpC}

CandidateTexts ==
    { [title |-> <<"Ancient", "History">>, description |-> <<"war", "stories">>],
      [title |-> <<"Quiet", "Chat">>, description |-> <<>>] }

SelectCandidates ==
    { [url |-> u, title |-> x.title, description |-> x.description]
        : u \in CandidateUrls, x \in CandidateTexts }

CurrentFeeds ==
    { [rss_url |-> u, title |-> "Curated", categories |-> c, language |-> "en"]
        : u \in CurrentUrls, c \in {<<"History">>, <<"General", "History">>} }

TargetTotal == 100

\* target_total: the value main passes, and a small one
TargetTotals == {1, TargetTotal}

SelectIdle ==
    /\ sCandidates = <<>>
    /\ sCurrent = <<>>
    /\ sTargetTotal = 0
    /\ sSelected = <<>>
    /\ sPc = "idle"

SelectInit ==
    /\ sCandidates \in SeqUpTo(SelectCandidates, MaxCandidates)
    /\ sCurrent \in SeqUpTo(CurrentFeeds, MaxCurrent)
    /\ sTargetTotal \in TargetTotals
    /\ sSelected = <<>>
    /\ sPc = "start"

\* new_feeds = select_balanced_feeds(candidates, current_feeds, target_total)
Select ==
    /\ sPc = "start"
    /\ sSelected' = select_balanced_feeds(sCandidates, sCurrent, sTargetTotal)
    /\ sPc' = "selected"
    /\ UNCHANGED <<sCandidates, sCurrent, sTargetTotal>>
    /\ UNCHANGED <<mergeVars, scoreVars, filterVars, scalerVars, managerVars,
                 expanderVars, dedupVars, saveVars, runVars, predictVars,
                 uploadVars>>

SelectNext == Select

\* ---------------------------------------------- properties of the selection
TargetCats == {TargetDistribution[t].cat : t \in 1..Len(TargetDistribution)}

\* how many current feeds list the category (a feed lists it once per mention)
ListingCount(cat) ==
    LET mentions(i) == Cardinality({k \in 1..Len(sCurrent[i].categories) :
                                      sCurrent[i].categories[k] = cat})
        sum[i \in 0..Len(sCurrent)] == IF i = 0 THEN 0 ELSE sum[i - 1] + mentions(i)
    IN sum[Len(sCurrent)]

TargetOf(cat) ==
    LET t == CHOOSE t \in 1..Len(TargetDistribution) : TargetDistribution[t].cat = cat
    IN TargetDistribution[t].target

SelectedIn(cat) ==
    Cardinality({i \in 1..Len(sSelected) : sSelected[i].categories = <<cat>>})

\* C5: at the end of select_balanced_feeds every category holds at most
\* needed[c] = max(0, target[c] - existing feeds listing c) selected feeds, and a
\* category outside the target distribution holds none.
C5_SelectionWithinNeeded ==
    sPc = "selected" =>
        /\ \A cat \in TargetCats : SelectedIn(cat) <= Max(0, TargetOf(cat) - ListingCount(cat))
        /\ \A i \in 1..Len(sSelected) :
              /\ Len(sSelected[i].categories) = 1
              /\ sSelected[i].categories[1] \in TargetCats

\* C5 witness: a category is filled exactly to its need while a further
\* candidate of that category, with a URL not yet taken, is left out.
C5_Witness ==
    /\ sPc = "selected"
    /\ \E cat \in TargetCats :
          /\ SelectedIn(cat) >= 1
          /\ SelectedIn(cat) = TargetOf(cat) - ListingCount(cat)
          /\ \E i \in 1..Len(sCandidates) :
                /\ categorize_feed(sCandidates[i]) = cat
                /\ \A k \in 1..Len(sSelected) :
                      ~SameUrl(sSelected[k].rss_url, sCandidates[i].url)
                /\ \A k \in 1..Len(sCurrent) :
                      ~SameUrl(sCurrent[k].rss_url, sCandidates[i].url)

\* ================================================ calculate_quality_score
\* A parsed feed: `count` entries, the first Len(head) of them given one by one
\* and every later one equal to `rest`. `dated` says whether the entry has a
\* published_parsed, `published` is that date as a day number; the other fields
\* say whether the value is there.
EntryAt(feed, i) == IF i <= Len(feed.head) THEN feed.head[i] ELSE feed.rest

\* every entry of the feed, as positions
AllEntries(feed, m) == 1..feed.count

\* feed.entries[:m], as positions
FirstEntries(feed, m) == 1..Min(feed.count, m)

\* hasattr(entry, 'published_parsed') and entry.published_parsed and
\* datetime(*entry.published_parsed[:6]) > cutoff, cutoff = now - timedelta(days)
IsRecentInclusive(entry, now, days) ==
    /\ entry.dated
    /\ entry.published >= now - days
IsRecent(entry, now, days) ==
    /\ entry.dated
    /\ entry.published > now - days

RecentCount(feed, now, inspected, days) ==
    Cardinality({i \in FirstEntries(feed, inspected) : IsRecent(EntryAt(feed, i), now, days)})

\* min(recent_count * weight, 25)
RecencyUncapped(recent, weight) == recent * weight
Recency(recent, weight) == Min(recent * weight, 25)

\* the recency term of each variant: entries inspected, window in days, weight
RecentFM(feed, now) == RecentCount(feed, now, 20, 30)
RecencyFM(feed, now) == Recency(RecentFM(feed, now), 5)
RecentQE(feed, now) == RecentCount(feed, now, 10, 60)
RecencyQE(feed, now) == Recency(RecentQE(feed, now), 5)
RecentPS(feed, now) == RecentCount(feed, now, 15, 90)
RecencyPS(feed, now) == Recency(RecentPS(feed, now), 3)

\* Points are summed in units of 1/30 of a point, which holds episode_count / 10,
\* / 5 and / 3 exactly; round(score, 1) then gives tenths of a point.
Unit == 30

\* min(episode_count / divisor, 20)
VolumeUncapped(count, divisor) == (count * Unit) \div divisor
Volume(count, divisor) == Min((count * Unit) \div divisor, 20 * Unit)

\* round(score, 1), in tenths: the nearest tenth (no sum of these terms falls
\* half-way between two tenths)
RoundTenths(units) == (2 * units + 3) \div 6

Flag(b, points) == IF b THEN points ELSE 0

\* the four feed.feed.get(...) checks, 5 points each
FeedFields(feed) ==
    Flag(feed.title # "", 5) + Flag(feed.description # "", 5)
        + Flag(feed.author # "", 5) + Flag(feed.language # "", 5)

Sum5(f(_), feed) ==
    LET s[i \in 0..5] == IF i = 0 THEN 0
                         ELSE s[i - 1] + (IF i <= feed.count THEN f(EntryAt(feed, i)) ELSE 0)
    IN s[5]

\* ---- FeedManager.calculate_quality_score(feed)
EntryPointsFM(e) ==
    Flag(e.title, 60) + Flag(e.description, 60) + Flag(e.enclosures, 60)

ScoreFM(feed, now) ==
    LET recent == RecentFM(feed, now)
        recency == RecencyFM(feed, now)
        image == Flag(feed.image # "none" \/ feed.logo, 5)
        units == Volume(feed.count, 10) + Unit * (recency + FeedFields(feed) + image)
                    + Min(Sum5(EntryPointsFM, feed), 30 * Unit)
    IN [score |-> RoundTenths(units), recent |-> recent, recency |-> recency, at |-> now]

\* what both scorers that fetch the feed themselves return on `feed.bozo and not
\* feed.entries`, and from their except branch
ZeroScore(now) == [score |-> 0, recent |-> 0, recency |-> 0, at |-> now]

\* ---- QualityFeedExpander.calculate_quality_score(feed_data)
EntryPointsQE(e) ==
    Flag(e.title, 60) + Flag(e.description \/ e.summary, 60) + Flag(e.enclosures, 60)

ScoreQE(feed, cand, now) ==
    LET recent == RecentQE(feed, now)
        recency == RecencyQE(feed, now)
        image == Flag(feed.image = "href" \/ feed.logo, 5)
        bonus == Flag(cand.itunes_id # "", 10) + Flag(feed.count > 50, 5)
        units == Volume(feed.count, 5) + Unit * (recency + FeedFields(feed) + image + bonus)
                    + Min(Sum5(EntryPointsQE, feed), 30 * Unit)
    IN IF feed.bozo /\ feed.count = 0 THEN ZeroScore(now)
       ELSE [score |-> RoundTenths(units), recent |-> recent, recency |-> recency, at |-> now]

\* ---- PremiumScaler.calculate_quality_score(feed_data)
EntryPointsPS(e) ==
    Flag(e.title, 45) + Flag(e.description \/ e.summary, 45) + Flag(e.enclosures, 30)

ScorePS(feed, cand, now) ==
    LET recent == RecentPS(feed, now)
        recency == RecencyPS(feed, now)
        image == Flag(feed.image = "href" \/ feed.logo, 5)
        bonus == Flag(cand.itunes_id # "", 8) + Flag(feed.count > 25, 5)
                    + Flag(feed.count > 100, 5) + Flag(cand.category_confidence >= 2, 5)
        units == Volume(feed.count, 3) + Unit * (recency + FeedFields(feed) + image + bonus)
                    + Min(Sum5(EntryPointsPS, feed), 20 * Unit)
    IN IF feed.bozo /\ feed.count = 0 THEN ZeroScore(now)
       ELSE [score |-> RoundTenths(units), recent |-> recent, recency |-> recency, at |-> now]

ScoreAll(feed, cand, now) ==
    [fm |-> ScoreFM(feed, now), qe |-> ScoreQE(feed, cand, now), ps |-> ScorePS(feed, cand, now)]

\* ---- inputs of the scorers
Today == 1000

EntryKinds ==
    { [dated |-> TRUE, published |-> Today - 5, title |-> TRUE, description |-> TRUE, summary |-> FALSE,
       enclosures |-> TRUE],
      [dated |-> TRUE, published |-> Today - 29, title |-> TRUE, description |-> FALSE, summary |-> TRUE,
       enclosures |-> FALSE],
      [dated |-> TRUE, published |-> Today - 59, title |-> FALSE, description |-> TRUE, summary |-> FALSE,
       enclosures |-> TRUE],
      [dated |-> FALSE, published |-> 0, title |-> FALSE, description |-> FALSE, summary |-> FALSE,
       enclosures |-> FALSE] }

EpisodeCounts == {0, 2, 5, 9, 51, 250}

FeedHeaders ==
    { [title |-> "Tech Weekly", description |-> "A show", author |-> "Host",
       language |-> "en", image |-> "href", logo |-> FALSE],
      [title |-> "Tech Weekly", description |-> "", author |-> "",
       language |-> "", image |-> "nohref", logo |-> FALSE],
      [title |-> "", description |-> "", author |-> "",
       language |-> "", image |-> "none", logo |-> FALSE] }

ParsedFeeds ==
    { [bozo |-> b, count |-> n, head |-> h, rest |-> r, title |-> m.title,
       description |-> m.description, author |-> m.author, language |-> m.language,
       image |-> m.image, logo |-> m.logo]
        : b \in BOOLEAN, n \in EpisodeCounts, h \in SeqUpTo(EntryKinds, MaxHead),
          r \in EntryKinds, m \in FeedHeaders }

ScoredCandidates ==
    { [itunes_id |-> "", category_confidence |-> 1],
      [itunes_id |-> "1200", category_confidence |-> 1],
      [itunes_id |-> "1200", category_confidence |-> 2] }

NoScores == [fm |-> ZeroScore(0), qe |-> ZeroScore(0), ps |-> ZeroScore(0)]

ScoreIdle ==
    /\ qFeed = None
    /\ qCand = None
    /\ qNow = 0
    /\ qFirst = NoScores
    /\ qSecond = NoScores
    /\ qPc = "idle"

ScoreInit ==
    /\ qFeed \in {f \in ParsedFeeds : Len(f.head) <= f.count}
    /\ qCand \in ScoredCandidates
    /\ qNow = Today
    /\ qFirst = NoScores
    /\ qSecond = NoScores
    /\ qPc = "start"

\* the feeds that differ in their entries only, for the recency term on its own
RecencyInit ==
    /\ ScoreInit
    /\ ~qFeed.bozo
    /\ qFeed.title # "" /\ qFeed.image = "href"
    /\ qCand.itunes_id = ""

\* the three scorers called on the feed
Score ==
    /\ qPc = "start"
    /\ qFirst' = ScoreAll(qFeed, qCand, qNow)
    /\ qPc' = "scored"
    /\ UNCHANGED <<qFeed, qCand, qNow, qSecond>>
    /\ UNCHANGED <<mergeVars, selectVars, filterVars, scalerVars, managerVars,
                 expanderVars, dedupVars, saveVars, runVars, predictVars,
                 uploadVars>>

\* a day passes
Tick ==
    /\ qPc \in {"start", "scored"}
    /\ qNow < Today + MaxTicks
    /\ qNow' = qNow + 1
    /\ UNCHANGED <<qFeed, qCand, qFirst, qSecond, qPc>>
    /\ UNCHANGED <<mergeVars, selectVars, filterVars, scalerVars, managerVars,
                 expanderVars, dedupVars, saveVars, runVars, predictVars,
                 uploadVars>>

\* the same feed and candidate scored a second time
Rescore ==
    /\ qPc = "scored"
    /\ qSecond' = ScoreAll(qFeed, qCand, qNow)
    /\ qPc' = "rescored"
    /\ UNCHANGED <<qFeed, qCand, qNow, qFirst>>
    /\ UNCHANGED <<mergeVars, selectVars, filterVars, scalerVars, managerVars,
                 expanderVars, dedupVars, saveVars, runVars, predictVars,
                 uploadVars>>

ScoreNext == Score \/ Tick \/ Rescore

\* ------------------------------------------------ properties of the scorers
Scored == qPc \in {"scored", "rescored"}

ScoreWithin(result, top) == 0 <= result.score /\ result.score <= top

\* C7: whatever the feed and the candidate flags, the quality score (in tenths)
\* is never negative and never above the variant's maximum: 100 points for
\* FeedManager, 115 for QualityFeedExpander and PremiumScaler.
C7_ScoreWithinBounds ==
    /\ Scored =>
          /\ ScoreWithin(qFirst.fm, 1000)
          /\ ScoreWithin(qFirst.qe, 1150)
          /\ ScoreWithin(qFirst.ps, 1150)
    /\ qPc = "rescored" =>
          /\ ScoreWithin(qSecond.fm, 1000)
          /\ ScoreWithin(qSecond.qe, 1150)
          /\ ScoreWithin(qSecond.ps, 1150)

\* C7 witness: a large, fresh, fully described feed reaches both maxima.
C7_Witness ==
    /\ qPc = "scored"
    /\ qFeed.count = 250
    /\ qFirst.fm.score = 1000
    /\ qFirst.qe.score = 1150

\* C8 as stated: two calls with the same parsed feed and candidate return the
\* same score, also when they are made at different times.
C8_SameScoreAtAnyTime ==
    qPc = "rescored" =>
        /\ qSecond.fm.score = qFirst.fm.score
        /\ qSecond.qe.score = qFirst.qe.score
        /\ qSecond.ps.score = qFirst.ps.score

\* an inspected entry whose date is inside the window at time t1 and outside at t2
AgedOut(inspected, days, t1, t2) ==
    \E i \in FirstEntries(qFeed, inspected) :
        LET e == EntryAt(qFeed, i)
        IN e.dated /\ t1 - days < e.published /\ e.published <= t2 - days

\* C8 amended: two calls with the same parsed feed and candidate return the same
\* score when no inspected entry (the first 20, 10, 15) has left the recency
\* window (30, 60, 90 days before now) between the two calls; the score depends
\* on the current time only through that cutoff.
C8_SameScoreWhileWindowHolds ==
    qPc = "rescored" =>
        /\ ~AgedOut(20, 30, qFirst.fm.at, qSecond.fm.at) => qSecond.fm.score = qFirst.fm.score
        /\ (~AgedOut(10, 60, qFirst.qe.at, qSecond.qe.at) /\ ~(qFeed.bozo /\ qFeed.count = 0))
              => qSecond.qe.score = qFirst.qe.score
        /\ (~AgedOut(15, 90, qFirst.ps.at, qSecond.ps.at) /\ ~(qFeed.bozo /\ qFeed.count = 0))
              => qSecond.ps.score = qFirst.ps.score
        /\ (qFeed.bozo /\ qFeed.count = 0) => (qSecond.qe.score = 0 /\ qSecond.ps.score = 0)

\* C8 witness: a feed with recent entries scored on two different days, none of
\* its inspected entries leaving the 30-day window in between.
C8_Witness ==
    /\ qPc = "rescored"
    /\ qSecond.fm.at > qFirst.fm.at
    /\ qFirst.fm.recent > 0
    /\ ~AgedOut(20, 30, qFirst.fm.at, qSecond.fm.at)
    /\ qSecond.fm.score = qFirst.fm.score

\* the feed with its first k entries published today, everything else as it is
WithRecent(k) ==
    [qFeed EXCEPT !.head = [i \in 1..k |->
        [EntryAt(qFeed, i) EXCEPT !.dated = TRUE, !.published = qNow]]]

Saturates(recent, recency, weight) ==
    /\ recency <= 25
    /\ recent * weight >= 25 => recency = 25

\* the recency sub-score does not drop from k - 1 to k recent leading entries
StepUp(RecentOf(_, _), RecencyOf(_, _), weight, k) ==
    LET less == WithRecent(k - 1)
        more == WithRecent(k)
    IN /\ RecentOf(more, qNow) >= RecentOf(less, qNow)
       /\ RecencyOf(more, qNow) >= RecencyOf(less, qNow)
       /\ Saturates(RecentOf(more, qNow), RecencyOf(more, qNow), weight)

\* C9: with everything else fixed, the recency sub-score never decreases when
\* more of the inspected entries are recent, and it is exactly 25 once
\* recent_count * w has reached 25.
C9_RecencyMonotoneSaturating ==
    (qPc = "scored" /\ qFirst.fm.at = qNow) =>
        /\ Saturates(qFirst.fm.recent, qFirst.fm.recency, 5)
        /\ Saturates(qFirst.qe.recent, qFirst.qe.recency, 5) \/ (qFeed.bozo /\ qFeed.count = 0)
        /\ Saturates(qFirst.ps.recent, qFirst.ps.recency, 3) \/ (qFeed.bozo /\ qFeed.count = 0)
        /\ \A k \in 1..Min(qFeed.count, 20) : StepUp(RecentFM, RecencyFM, 5, k)
        /\ \A k \in 1..Min(qFeed.count, 10) : StepUp(RecentQE, RecencyQE, 5, k)
        /\ \A k \in 1..Min(qFeed.count, 15) : StepUp(RecentPS, RecencyPS, 3, k)

\* C9 witness: a feed scored with exactly five recent entries among its first
\* 20, where recent_count * 5 first reaches the cap.
C9_Witness ==
    /\ qPc = "scored"
    /\ qFirst.fm.recent = 5
    /\ qFirst.fm.recency = 25
    /\ qFirst.ps.recent * 3 < 25

\* ============================================================= prefilter
\* A CSV row holds strings: numbers are digit strings until int() reads them.
DigitValue(c) ==
    CASE c = "0" -> 0 [] c = "1" -> 1 [] c = "2" -> 2 [] c = "3" -> 3 [] c = "4" -> 4
      [] c = "5" -> 5 [] c = "6" -> 6 [] c = "7" -> 7 [] c = "8" -> 8 [] c = "9" -> 9

\* int(s) of a digit string
RECURSIVE ParseInt(_)
ParseInt(s) ==
    IF s = <<>> THEN 0
    ELSE 10 * ParseInt(SubSeq(s, 1, Len(s) - 1)) + DigitValue(s[Len(s)])

HttpPrefix == <<"h","t","t","p",":","/","/">>
HttpsPrefix == <<"h","t","t","p","s",":","/","/">>

\* url.startswith(('http://', 'https://'))
IsHttpUrl(url) == StartsWith(url, HttpPrefix) \/ StartsWith(url, HttpsPrefix)

\* the body of the loop of FeedManager.clean_podcastindex_feeds: TRUE when the
\* row reaches cleaned.append(feed)
TooManyErrorsAtCeiling(row) == ParseInt(row.parse_errors) >= 10
TooManyErrors(row) == ParseInt(row.parse_errors) > 10

KeepsFeed(row) ==
    LET url == Strip(row.url)
        title == Strip(row.title)
    IN /\ ~(row.dead = "1")
       /\ ~TooManyErrors(row)
       /\ ~(url = <<>> \/ ~IsHttpUrl(url))
       /\ ~(row.duplicateof # "" /\ row.duplicateof # "NULL")
       /\ ~(title = <<>> \/ Len(title) < 3)

\* a filter that keeps every row
keep_all_feeds(rows) == rows

RECURSIVE clean_podcastindex_feeds(_)
clean_podcastindex_feeds(rows) ==
    IF rows = <<>> THEN <<>>
    ELSE (IF KeepsFeed(Head(rows)) THEN <<Head(rows)>> ELSE <<>>)
            \o clean_podcastindex_feeds(Tail(rows))

\* PremiumScaler._passes_basic_filter(row)
HasNewestItem(row) == ParseInt(row.newest_item_pubdate) > 0

passes_basic_filter(row) ==
    /\ row.dead = "0"
    /\ IsHttpUrl(row.url)
    /\ Len(Strip(row.title)) > 3
    /\ row.duplicateof = "NULL"
    /\ ParseInt(row.parse_errors) <= 8
    /\ HasNewestItem(row)

\* ---- inputs of the prefilter
RowUrls ==
    { <<>>, <<"f","t","p",":","/","/","a">>, HttpA, HttpsB,
      <<" ","h","t","t","p","s",":","/","/","b">> }

RowTitles ==
    { <<>>, <<"a","b">>, <<"a","b","c">>, <<"a","b","c","d">>, <<" ","a","b"," ">> }

RowErrorCounts == { <<"0">>, <<"8">>, <<"9">>, <<"1","0">>, <<"1","1">> }

Rows ==
    { [dead |-> d, url |-> u, title |-> t, duplicateof |-> o, parse_errors |-> e,
       newest_item_pubdate |-> n]
        : d \in {"0", "1", ""}, u \in RowUrls, t \in RowTitles, o \in {"NULL", "", "4711"},
          e \in RowErrorCounts, n \in {<<"0">>, <<"1","7","0","0">>} }

\* the rows that follow the first one in the file
FollowingRows ==
    { [dead |-> d, url |-> HttpsB, title |-> <<"a","b","c","d">>, duplicateof |-> "NULL",
       parse_errors |-> <<"0">>, newest_item_pubdate |-> <<"1","7","0","0">>]
        : d \in {"0", "1"} }

FilterIdle ==
    /\ fRows = <<>>
    /\ fCleaned = <<>>
    /\ fPassed = <<>>
    /\ fPc = "idle"

FilterInit ==
    /\ fRows \in {<<r>> \o t : r \in Rows, t \in SeqUpTo(FollowingRows, MaxRows - 1)}
    /\ fCleaned = <<>>
    /\ fPassed = <<>>
    /\ fPc = "start"

\* cleaned_feeds = manager.clean_podcastindex_feeds()
Clean ==
    /\ fPc = "start"
    /\ fCleaned' = clean_podcastindex_feeds(fRows)
    /\ fPc' = "cleaned"
    /\ UNCHANGED <<fRows, fPassed>>
    /\ UNCHANGED <<mergeVars, selectVars, scoreVars, scalerVars, managerVars,
                 expanderVars, dedupVars, saveVars, runVars, predictVars,
                 uploadVars>>

\* the loop of get_strategic_candidates asking _passes_basic_filter about each row
BasicFilter ==
    /\ fPc = "cleaned"
    /\ fPassed' = [i \in 1..Len(fRows) |-> passes_basic_filter(fRows[i])]
    /\ fPc' = "filtered"
    /\ UNCHANGED <<fRows, fCleaned>>
    /\ UNCHANGED <<mergeVars, selectVars, scoreVars, scalerVars, managerVars,
                 expanderVars, dedupVars, saveVars, runVars, predictVars,
                 uploadVars>>

FilterNext == Clean \/ BasicFilter

\* ---------------------------------------------- properties of the prefilter
\* the rejection conditions of the claim, read as generously as the text allows:
\* url and title without surrounding white space, duplicateof "present" when
\* it is not empty
Listed(row, ceiling, minLength) ==
    \/ row.dead = "1"
    \/ Strip(row.url) = <<>>
    \/ ~IsHttpUrl(Strip(row.url))
    \/ Len(Strip(row.title)) < minLength
    \/ (row.duplicateof # "" /\ row.duplicateof # "NULL")
    \/ ParseInt(row.parse_errors) > ceiling

\* C10 as stated: a row passes exactly when none of the listed conditions holds
\* (FeedManager: ceiling 10, title of 3; PremiumScaler: ceiling 8, title of 4).
C10_PassesIffNoneListed ==
    fPc = "filtered" =>
        /\ fCleaned = KeepPositions(fRows, {i \in 1..Len(fRows) : ~Listed(fRows[i], 10, 3)}, 1)
        /\ \A i \in 1..Len(fRows) : fPassed[i] <=> ~Listed(fRows[i], 8, 4)

\* what _passes_basic_filter rejects beyond the list: a url with leading white
\* space, a duplicateof cell that is not the NULL sentinel (an empty one
\* included), no newest_item_pubdate
ListedBasic(row) ==
    \/ row.dead # "0"
    \/ ~IsHttpUrl(row.url)
    \/ Len(Strip(row.title)) < 4
    \/ row.duplicateof # "NULL"
    \/ ParseInt(row.parse_errors) > 8
    \/ ParseInt(row.newest_item_pubdate) <= 0

\* C10 amended: clean_podcastindex_feeds keeps a row exactly when none of the
\* listed conditions holds (url and title stripped, ceiling 10, title of 3);
\* _passes_basic_filter passes a row exactly when none of them holds (url as it
\* is, ceiling 8, title of 4) and, besides, duplicateof is the NULL sentinel and
\* newest_item_pubdate is above 0. A row at the ceiling with a title of the
\* minimum length is accepted.
C10_PassesIffNoneListedOrStale ==
    fPc = "filtered" =>
        /\ fCleaned = KeepPositions(fRows, {i \in 1..Len(fRows) : ~Listed(fRows[i], 10, 3)}, 1)
        /\ \A i \in 1..Len(fRows) : fPassed[i] <=> ~ListedBasic(fRows[i])
        /\ \A i \in 1..Len(fRows) : fPassed[i] => ~Listed(fRows[i], 8, 4)

\* C10 witness: a row with parse_errors 10 and a three-letter title kept by
\* clean_podcastindex_feeds, next to a row that _passes_basic_filter passes.
C10_Witness ==
    /\ fPc = "filtered"
    /\ Len(fRows) = 2
    /\ ParseInt(fRows[1].parse_errors) = 10
    /\ Len(Strip(fRows[1].title)) = 3
    /\ Len(fCleaned) = 2
    /\ ~fPassed[1]
    /\ fPassed[2]

\* ======================================================== expand_to_100.py
\* minimum quality score of PremiumScaler, in tenths of a point
MinScore == 550

\* the quota of a category that target_categories does not list
DefaultQuota == 3

\* PremiumScaler.target_categories, in declaration order
target_categories ==
    << [cat |-> "Technology", target |-> 15],
       [cat |-> "Business", target |-> 12],
       [cat |-> "News", target |-> 10],
       [cat |-> "Science", target |-> 8],
       [cat |-> "Comedy", target |-> 8],
       [cat |-> "Health", target |-> 6],
       [cat |-> "Sports", target |-> 6],
       [cat |-> "Education", target |-> 5],
       [cat |-> "True Crime", target |-> 5],
       [cat |-> "Music", target |-> 5],
       [cat |-> "Arts", target |-> 4],
       [cat |-> "Politics", target |-> 4],
       [cat |-> "Society", target |-> 4],
       [cat |-> "History", target |-> 3],
       [cat |-> "Finance", target |-> 3],
       [cat |-> "Food", target |-> 2] >>

\* the mapping of map_itunes_category, in declaration order
ItunesMapping ==
    << [key |-> <<"T","e","c","h","n","o","l","o","g","y">>, value |-> "Technology"],
       [key |-> <<"B","u","s","i","n","e","s","s">>, value |-> "Business"],
       [key |-> <<"N","e","w","s">>, value |-> "News"],
       [key |-> <<"S","c","i","e","n","c","e">>, value |-> "Science"],
       [key |-> <<"C","o","m","e","d","y">>, value |-> "Comedy"],
       [key |-> <<"H","e","a","l","t","h"," ","&"," ","F","i","t","n","e","s","s">>, value |-> "Health"],
       [key |-> <<"S","p","o","r","t","s">>, value |-> "Sports"],
       [key |-> <<"E","d","u","c","a","t","i","o","n">>, value |-> "Education"],
       [key |-> <<"T","r","u","e"," ","C","r","i","m","e">>, value |-> "True Crime"],
       [key |-> <<"M","u","s","i","c">>, value |-> "Music"],
       [key |-> <<"A","r","t","s">>, value |-> "Arts"],
       [key |-> <<"G","o","v","e","r","n","m","e","n","t">>, value |-> "Politics"],
       [key |-> <<"S","o","c","i","e","t","y"," ","&"," ","C","u","l","t","u","r","e">>, value |-> "Society"],
       [key |-> <<"H","i","s","t","o","r","y">>, value |-> "History"],
       [key |-> <<"R","e","l","i","g","i","o","n"," ","&"," ","S","p","i","r","i","t","u","a","l","i","t","y">>, value |-> "Religion"],
       [key |-> <<"T","V"," ","&"," ","F","i","l","m">>, value |-> "Entertainment"],
       [key |-> <<"L","e","i","s","u","r","e">>, value |-> "Entertainment"] >>

\* `a in b` on strings
IsSubstring(a, b) ==
    \E i \in 1..(Len(b) - Len(a) + 1) : SubSeq(b, i, i + Len(a) - 1) = a

\* key.lower(), for every key of the mapping
ItunesKeysLower == [i \in 1..Len(ItunesMapping) |-> Lower(ItunesMapping[i].key)]

\* PremiumScaler.map_itunes_category
map_itunes_category(itunes_cat) ==
    LET hits == {i \in 1..Len(ItunesMapping) : IsSubstring(ItunesKeysLower[i], Lower(itunes_cat))}
    IN IF hits = {} THEN None
       ELSE ItunesMapping[CHOOSE i \in hits : \A j \in hits : i <= j].value

\* the keyword lists of analyze_content_category, in declaration order
AnalyzeKeywords ==
    << [cat |-> "Technology", keywords |-> {"tech", "programming", "software", "ai", "startup", "coding"}],
       [cat |-> "Business", keywords |-> {"business", "entrepreneur", "marketing", "finance", "leadership"}],
       [cat |-> "News", keywords |-> {"news", "politics", "current", "journalism", "daily"}],
       [cat |-> "Science", keywords |-> {"science", "research", "physics", "biology", "space"}],
       [cat |-> "Comedy", keywords |-> {"comedy", "humor", "funny", "laugh", "standup"}],
       [cat |-> "Health", keywords |-> {"health", "fitness", "wellness", "medical", "nutrition"}],
       [cat |-> "Sports", keywords |-> {"sports", "football", "basketball", "baseball", "soccer"}],
       [cat |-> "Education", keywords |-> {"education", "learning", "teaching", "university"}],
       [cat |-> "True Crime", keywords |-> {"crime", "murder", "investigation", "detective"}],
       [cat |-> "Music", keywords |-> {"music", "artist", "album", "song", "musician"}],
       [cat |-> "History", keywords |-> {"history", "historical", "ancient", "war"}],
       [cat |-> "Finance", keywords |-> {"finance", "money", "investing", "stocks", "crypto"}] >>

\* PremiumScaler.analyze_content_category: the first category with two
\* keywords in the feed's title and description
analyze_content_category(feed) ==
    LET content == [i \in 1..Len(feed.words) |-> LowerWord(feed.words[i])]
        hits == {i \in 1..Len(AnalyzeKeywords) :
                    KeywordScore(AnalyzeKeywords[i].keywords, content) >= 2}
    IN IF hits = {} THEN "General"
       ELSE AnalyzeKeywords[CHOOSE i \in hits : \A j \in hits : i <= j].cat

\* the categories mapped from a list of tags, in order
RECURSIVE MappedTags(_)
MappedTags(tags) ==
    IF tags = <<>> THEN <<>>
    ELSE LET mapped == IF Head(tags) = <<>> THEN None ELSE map_itunes_category(Head(tags))
         IN (IF mapped = None THEN <<>> ELSE <<mapped>>) \o MappedTags(Tail(tags))

\* PremiumScaler.extract_enhanced_categories
extract_enhanced_categories(feed, candidate) ==
    LET fromTags == MappedTags(Take(feed.tags, 2))
        categories ==
            IF fromTags # <<>> THEN fromTags
            ELSE IF candidate.predicted_category # "" THEN <<candidate.predicted_category>>
            ELSE <<analyze_content_category(feed)>>
    IN Take(categories, 2)

NoFeedData == [rss_url |-> <<>>, title |-> "", categories |-> <<>>, language |-> "",
               quality_score |-> 0, total_episodes |-> 0, predicted_category |-> ""]

\* the score of a call that returned before calculate_quality_score
NoScore == 0 - 1

\* response.status_code not in [200, 301, 302]
ScalerProbeAccepts(status) == status \in {200, 301, 302}

\* PremiumScaler.validate_feed: response is what the network answers, the
\* probe (raised, status) and the document the url serves (feed); ops are the
\* requests the call sent, in order
validate_feed(candidate, response) ==
    IF response.raised \/ ~ScalerProbeAccepts(response.status)
    THEN [is_valid |-> FALSE, feed_data |-> NoFeedData, ops |-> <<"head">>, score |-> NoScore]
    ELSE LET score == ScorePS(response.feed, candidate, Today).score
             feed == response.feed
         IN IF score < MinScore
            THEN [is_valid |-> FALSE, feed_data |-> NoFeedData, ops |-> <<"head", "parse">>,
                  score |-> score]
            ELSE [is_valid |-> TRUE,
                  feed_data |->
                    [rss_url |-> candidate.url,
                     title |-> IF feed.title # "" THEN feed.title ELSE candidate.title,
                     categories |-> extract_enhanced_categories(feed, candidate),
                     language |-> IF feed.language # "" THEN feed.language ELSE "en",
                     quality_score |-> score,
                     total_episodes |-> feed.count,
                     predicted_category |->
                        IF candidate.predicted_category # "" THEN candidate.predicted_category
                        ELSE "General"],
                  ops |-> <<"head", "parse", "parse">>,
                  score |-> score]

\* the record kept of a validate_feed call
NoScalerCall ==
    [url |-> <<>>, raised |-> FALSE, status |-> 0, ops |-> <<>>, is_valid |-> FALSE,
     score |-> NoScore, before |-> 0, tags |-> <<>>, words |-> <<>>, predicted |-> "",
     categories |-> <<>>]

\* the call, its outcome, len(validated) when it was made and, for an accepted
\* feed, the tags and the title and description words of the parsed document
ScalerCallRecord(candidate, response, result, before) ==
    [url |-> candidate.url, raised |-> response.raised, status |-> response.status,
     ops |-> result.ops, is_valid |-> result.is_valid, score |-> result.score,
     before |-> before,
     tags |-> IF result.is_valid THEN response.feed.tags ELSE <<>>,
     words |-> IF result.is_valid THEN response.feed.words ELSE <<>>,
     predicted |-> IF result.is_valid THEN candidate.predicted_category ELSE "",
     categories |-> result.feed_data.categories]

\* self.target_categories.get(primary_category, 3)
max_for_category(category) ==
    LET listed == {i \in 1..Len(target_categories) : target_categories[i].cat = category}
    IN IF listed = {} THEN DefaultQuota ELSE target_categories[CHOOSE i \in listed : TRUE].target

\* every label a record can carry
ScalerCategories ==
    { "Arts", "Business", "Comedy", "Education", "Entertainment", "Finance", "Food", "General", "Health", "History", "Music", "News", "Politics", "Religion", "Science", "Society", "Sports", "Technology", "True Crime" }

\* ---- inputs of process_candidates
DigitChars == <<"1", "2", "3", "4", "5", "6", "7", "8", "9">>

ShelfUrl(i) == IF i = 1 THEN HttpA ELSE HttpPrefix \o <<"e", DigitChars[i]>>

\* feeds.json holding n History records
Shelf(n) ==
    [i \in 1..n |-> [rss_url |-> ShelfUrl(i), title |-> "Curated",
                     categories |-> <<"History">>, language |-> "en"]]

FreshUrl(i) == HttpPrefix \o <<"n", DigitChars[i]>>

\* the candidates that can stand at position i of the list: a new url, or the
\* url of the first record of the shelf in capitals; the first candidate may
\* come without a predicted category
CandidatesAt(i) ==
    { [url |-> FreshUrl(i), title |-> "Old Wars", predicted_category |-> c,
       itunes_id |-> "1200", category_confidence |-> 2]
        : c \in IF i = 1 THEN {"History", ""} ELSE {"History"} }
    \cup
    { [url |-> HttpAUpper, title |-> "Old Wars", predicted_category |-> "History",
       itunes_id |-> "", category_confidence |-> 1] }

CandidateLists ==
    UNION { {c \in [1..n -> UNION {CandidatesAt(i) : i \in 1..n}] :
                \A i \in 1..n : c[i] \in CandidatesAt(i)}
            : n \in 0..MaxScalerCandidates }

FullEntry ==
    [dated |-> TRUE, published |-> Today - 5, title |-> TRUE, description |-> TRUE,
     summary |-> FALSE, enclosures |-> TRUE]

BareEntry ==
    [dated |-> FALSE, published |-> 0, title |-> FALSE, description |-> FALSE,
     summary |-> FALSE, enclosures |-> FALSE]

\* the documents a url can serve: a rich feed with each list of tags, a poor
\* one, and one that scores 55.0 for a candidate with an iTunes id and a
\* category confidence of 2
ServedFeeds ==
    { [bozo |-> FALSE, count |-> 51, head |-> <<>>, rest |-> FullEntry, title |-> "Tech Weekly",
       description |-> "A show", author |-> "Host", language |-> "en", image |-> "href",
       logo |-> FALSE, tags |-> t, words |-> <<"Ancient", "war">>]
        : t \in { <<>>, <<<<"T","e","c","h","n","o","l","o","g","y">>>>,
                  <<<<>>, <<"K","i","d","s"," ","&"," ","F","a","m","i","l","y">>, <<"H","i","s","t","o","r","y">>>> } }
    \cup
    { [bozo |-> FALSE, count |-> 2, head |-> <<>>, rest |-> BareEntry, title |-> "",
       description |-> "", author |-> "", language |-> "", image |-> "none",
       logo |-> FALSE, tags |-> <<>>, words |-> <<>>],
      [bozo |-> FALSE, count |-> 36, head |-> <<>>,
       rest |-> [BareEntry EXCEPT !.enclosures = TRUE], title |-> "Tech Weekly",
       description |-> "A show", author |-> "Host", language |-> "", image |-> "href",
       logo |-> FALSE, tags |-> <<>>, words |-> <<"Old", "war">>] }

\* every document behind a probe answered 200; the poor one behind a redirect,
\* behind a 404 and behind a probe that raises
Responses ==
    { [raised |-> FALSE, status |-> 200, feed |-> f] : f \in ServedFeeds }
    \cup
    { [raised |-> FALSE, status |-> c, feed |-> f]
        : c \in {302, 404}, f \in {x \in ServedFeeds : x.count = 36} }
    \cup
    { [raised |-> TRUE, status |-> 0, feed |-> f] : f \in {x \in ServedFeeds : x.count = 2} }

\* target_new: the default of process_candidates and main, and a small one
TargetsNew == {2, 70}

ScalerIdle ==
    /\ pExisting = <<>>
    /\ pCandidates = <<>>
    /\ pTargetNew = 0
    /\ pIdx = 0
    /\ pValidated = <<>>
    /\ pCounts = [c \in ScalerCategories |-> 0]
    /\ pUrls = {}
    /\ pLast = NoScalerCall
    /\ pTrace = <<>>
    /\ pPc = "idle"

\* process_candidates up to the loop
ScalerInit ==
    /\ pExisting \in {Shelf(0), Shelf(1), Shelf(MaxShelf)}
    /\ pCandidates \in CandidateLists
    /\ pTargetNew \in TargetsNew
    /\ pIdx = 1
    /\ pValidated = <<>>
    /\ pCounts = [c \in ScalerCategories |-> 0]
    /\ pUrls = {Lower(pExisting[i].rss_url) : i \in 1..Len(pExisting)}
    /\ pLast = NoScalerCall
    /\ pTrace = <<>>
    /\ pPc = "loop"

InLoop ==
    /\ pPc = "loop"
    /\ pIdx <= Len(pCandidates)
    /\ Len(pValidated) < pTargetNew

\* if url in existing_urls: continue
SkipKnownUrl ==
    /\ InLoop
    /\ Lower(pCandidates[pIdx].url) \in pUrls
    /\ pIdx' = pIdx + 1
    /\ UNCHANGED <<pExisting, pCandidates, pTargetNew, pValidated, pCounts, pUrls, pLast,
                   pTrace, pPc>>
    /\ UNCHANGED <<mergeVars, selectVars, scoreVars, filterVars, managerVars,
                 expanderVars, dedupVars, saveVars, runVars, predictVars,
                 uploadVars>>

\* the category balance of process_candidates, for a feed that validate_feed
\* accepted
CheckBalance(url, feed_data) ==
    LET primary_category == feed_data.categories[1]
    IN IF pCounts[primary_category] < max_for_category(primary_category)
       THEN /\ pValidated' = Append(pValidated, feed_data)
            /\ pCounts' = [pCounts EXCEPT ![primary_category] = @ + 1]
            /\ pUrls' = pUrls \cup {url}
       ELSE UNCHANGED <<pValidated, pCounts, pUrls>>

\* one turn of the loop for a url not seen before: validate_feed, the
\* category balance, the pause
ValidateCandidate ==
    /\ InLoop
    /\ Lower(pCandidates[pIdx].url) \notin pUrls
    /\ \E response \in Responses :
        \E result \in {validate_feed(pCandidates[pIdx], response)} :
            /\ pLast' = ScalerCallRecord(pCandidates[pIdx], response, result, Len(pValidated))
            /\ IF result.is_valid
               THEN CheckBalance(Lower(pCandidates[pIdx].url), result.feed_data)
               ELSE UNCHANGED <<pValidated, pCounts, pUrls>>
    /\ pTrace' = pTrace \o <<"fetch", "sleep">>
    /\ pIdx' = pIdx + 1
    /\ UNCHANGED <<pExisting, pCandidates, pTargetNew, pPc>>
    /\ UNCHANGED <<mergeVars, selectVars, scoreVars, filterVars, managerVars,
                 expanderVars, dedupVars, saveVars, runVars, predictVars,
                 uploadVars>>

\* the loop ends (list exhausted, or break on target_new): return validated
ReturnValidated ==
    /\ pPc = "loop"
    /\ ~InLoop
    /\ pPc' = "returned"
    /\ UNCHANGED <<pExisting, pCandidates, pTargetNew, pIdx, pValidated, pCounts, pUrls,
                   pLast, pTrace>>
    /\ UNCHANGED <<mergeVars, selectVars, scoreVars, filterVars, managerVars,
                 expanderVars, dedupVars, saveVars, runVars, predictVars,
                 uploadVars>>

ScalerNext == SkipKnownUrl \/ ValidateCandidate \/ ReturnValidated

\* ------------------------------------------ properties of process_candidates
\* the number of existing records that carry a category
ShelfCount(category) ==
    Cardinality({i \in 1..Len(pExisting) : category \in Range(pExisting[i].categories)})

AcceptedIn(category) ==
    {k \in 1..Len(pValidated) : pValidated[k].categories[1] = category}

\* C6: when the existing collection already holds as many records of a
\* category as the category's quota, process_candidates accepts no candidate
\* whose primary category is that category.
C6_FullCategoryAcceptsNone ==
    \A category \in ScalerCategories :
        ShelfCount(category) >= max_for_category(category) => AcceptedIn(category) = {}

\* the last call accepted a feed none of whose first two tags maps to a category
NoTagMaps == pLast.is_valid /\ MappedTags(Take(pLast.tags, 2)) = <<>>

\* the keyword analysis of the title and description of the accepted document
FeedKeywordCategory == analyze_content_category([words |-> pLast.words])

\* C25: when none of the feed's subject tags maps to an internal category, the
\* categories of the accepted record are the keyword category computed from
\* the parsed feed's own title and description (General when the analysis
\* finds nothing).
C25_UnmappedTagsFallBackToFeedKeywords ==
    NoTagMaps => pLast.categories = <<FeedKeywordCategory>>

\* what the code does: the category predicted for the candidate comes first,
\* and the feed's own words are analysed only for a candidate without one
C25_PredictionBeforeFeedKeywords ==
    NoTagMaps =>
        pLast.categories = IF pLast.predicted # "" THEN <<pLast.predicted>>
                           ELSE <<FeedKeywordCategory>>

\* a feed with unmapped tags only, whose words give General, labelled History
C25_PredictionWins ==
    /\ NoTagMaps
    /\ pLast.tags # <<>>
    /\ pLast.predicted = "History"
    /\ pLast.categories = <<"History">>

\* a feed without tags whose words give General, labelled History
C25_GeneralFeedLabelledHistory ==
    /\ NoTagMaps
    /\ FeedKeywordCategory = "General"
    /\ pLast.categories = <<"History">>

\* a candidate without a prediction: the feed's words decide
C25_FeedWordsDecide ==
    /\ NoTagMaps
    /\ pLast.predicted = ""
    /\ pLast.categories = <<FeedKeywordCategory>>

\* ========================================================= feed_manager.py
\* main: top_feeds = cleaned_feeds[:50]
TopLimit == 50

\* the word lists of the description fallback of extract_categories, in order
DescriptionKeywords ==
    << [cat |-> "Technology", keywords |-> {"tech", "technology", "programming"}],
       [cat |-> "News", keywords |-> {"news", "politics", "current"}],
       [cat |-> "Business", keywords |-> {"business", "entrepreneur", "finance"}],
       [cat |-> "Science", keywords |-> {"science", "research", "education"}],
       [cat |-> "Comedy", keywords |-> {"comedy", "humor", "funny"}] >>

\* the if/elif chain over word lists: the category of the first list with a
\* word in the content, General when there is none
FirstMatch(table, content) ==
    LET hits == {i \in 1..Len(table) : table[i].keywords \cap KeywordsIn(content) # {}}
    IN IF hits = {} THEN "General" ELSE table[CHOOSE i \in hits : \A j \in hits : i <= j].cat

\* the terms of the tags that have one, in order
RECURSIVE TagTerms(_)
TagTerms(tags) ==
    IF tags = <<>> THEN <<>>
    ELSE (IF Head(tags) = <<>> THEN <<>> ELSE <<Head(tags)>>) \o TagTerms(Tail(tags))

\* FeedManager.extract_categories
extract_categories(feed) ==
    LET fromTags == TagTerms(feed.tags)
        description == [i \in 1..Len(feed.dwords) |-> LowerWord(feed.dwords[i])]
        categories == IF fromTags # <<>> THEN fromTags
                      ELSE <<FirstMatch(DescriptionKeywords, description)>>
    IN Take(categories, 3)

\* FeedManager.extract_image_url
extract_image_url(feed) ==
    IF feed.image = "href" THEN "image.href" ELSE IF feed.logo THEN "logo" ELSE ""

NoMetrics ==
    [title |-> "", description |-> "", total_episodes |-> 0, recent_episodes |-> 0,
     quality_score |-> 0, language |-> "", author |-> "", image_url |-> "",
     categories |-> <<>>]

Rejected(error) == [raised |-> FALSE, is_valid |-> FALSE, error |-> error, metrics |-> NoMetrics]

Raised(error) == [raised |-> TRUE, is_valid |-> FALSE, error |-> error, metrics |-> NoMetrics]

\* FeedManager.validate_rss_feed, the body of its try block: response is what
\* the network and the parser do (fault: where an exception is raised, feed:
\* the parsed document)
validate_rss_feed_body(url, response) ==
    LET feed == response.feed
        recent_episodes == RecentCount(feed, Today, 10, 180)
    IN IF response.fault = "parse" THEN Raised("parse")
       ELSE IF feed.bozo /\ feed.count = 0 THEN Rejected("Failed to parse feed")
       ELSE IF feed.count < 3 THEN Rejected("Too few episodes")
       ELSE IF recent_episodes = 0 THEN Rejected("No recent episodes")
       ELSE IF response.fault = "score" THEN Raised("score")
       ELSE [raised |-> FALSE, is_valid |-> TRUE, error |-> "",
             metrics |->
                [title |-> IF feed.title # "" THEN feed.title ELSE "Unknown",
                 description |-> feed.description,
                 total_episodes |-> feed.count,
                 recent_episodes |-> recent_episodes,
                 quality_score |-> ScoreFM(feed, Today).score,
                 language |-> IF feed.language # "" THEN feed.language ELSE "en",
                 author |-> feed.author,
                 image_url |-> extract_image_url(feed),
                 categories |-> extract_categories(feed)]]

\* validate_rss_feed with the exception left to the caller
validate_rss_feed_uncaught(url, response) == validate_rss_feed_body(url, response)

\* FeedManager.validate_rss_feed: `except Exception` turns a raise into a
\* rejection
validate_rss_feed(url, response) ==
    LET result == validate_rss_feed_body(url, response)
    IN IF result.raised THEN Rejected(result.error) ELSE result

\* the feed_data process_feeds_batch appends for a valid feed
BatchFeedData(url, metrics) ==
    [rss_url |-> url, title |-> metrics.title, description |-> metrics.description,
     categories |-> metrics.categories, language |-> metrics.language,
     quality_score |-> metrics.quality_score, total_episodes |-> metrics.total_episodes,
     recent_episodes |-> metrics.recent_episodes]

\* ---- inputs of the run of feed_manager.py
ManagerUrls == {HttpA, HttpsB}

\* rows of the CSV: live rows with a title, within the ceiling of parse
\* errors or above it
ManagerRows ==
    { [dead |-> "0", url |-> u, title |-> <<"a","b","c","d">>, duplicateof |-> "NULL",
       parse_errors |-> e, newest_item_pubdate |-> <<"1","7","0","0">>]
        : u \in ManagerUrls, e \in {<<"0">>, <<"1","2">>} }

OldEntry ==
    [dated |-> TRUE, published |-> Today - 200, title |-> TRUE, description |-> TRUE,
     summary |-> FALSE, enclosures |-> TRUE]

Document(count, rest, bozo, tags, dwords) ==
    [bozo |-> bozo, count |-> count, head |-> <<>>, rest |-> rest, title |-> "Tech Weekly",
     description |-> "A show", author |-> "Host", language |-> "en", image |-> "href",
     logo |-> FALSE, tags |-> tags, words |-> <<"Tech", "Weekly">> \o dwords, dwords |-> dwords]

ThreeTags == <<<<"H","i","s","t","o","r","y">>, <<"E","d","u","c","a","t","i","o","n">>, <<"A","r","t","s">>>>

\* documents of twelve entries, the later ones of five days ago, that begin
\* with ten entries of 200 days ago, with ten entries without a date, with
\* nine entries of 200 days ago; and one of two entries of 200 days ago
StaleHeads ==
    { [Document(12, FullEntry, FALSE, <<>>, <<>>) EXCEPT !.head = [i \in 1..10 |-> OldEntry]],
      [Document(12, FullEntry, FALSE, <<>>, <<>>) EXCEPT !.head = [i \in 1..10 |-> BareEntry]],
      [Document(12, FullEntry, FALSE, <<>>, <<>>) EXCEPT !.head = [i \in 1..9 |-> OldEntry]],
      Document(2, OldEntry, FALSE, <<>>, <<>>) }

\* the documents a url can serve to validate_rss_feed: a long feed with three
\* tags, one of three entries without tags, one of two entries, one that
\* does not parse, one without an entry of the last 180 days
ManagerFeeds ==
    { Document(51, FullEntry, FALSE, ThreeTags, <<"Ancient", "history">>),
      Document(3, FullEntry, FALSE, <<>>, <<"daily", "tech">>),
      Document(2, FullEntry, FALSE, <<>>, <<>>),
      Document(0, BareEntry, TRUE, <<>>, <<>>),
      Document(9, OldEntry, FALSE, <<>>, <<>>) }
    \cup StaleHeads


ManagerResponses ==
    { [fault |-> "none", feed |-> f] : f \in ManagerFeeds }
    \cup
    { [fault |-> x, feed |-> f] : x \in {"parse", "score"}, f \in {g \in ManagerFeeds : g.count = 51} }

\* the record kept of the last validate_rss_feed call
NoManagerCall ==
    [called |-> FALSE, feed |-> Document(0, BareEntry, FALSE, <<>>, <<>>), fault |-> "none",
     is_valid |-> FALSE, error |-> ""]

\* batch_size: the default, and a small one
BatchSizes == {2, 10}

\* if i + batch_size < total: time.sleep(5), i being the start of the batch
BatchPauseAlways(i, batch_size, total) == TRUE
BatchPause(i, batch_size, total) == i + batch_size < total

\* the sleeps that follow row k (counted from 1) of `total`: the sleep after a
\* validation and, when the row ends its batch, the pause between batches
SleepsAfter(k, validated, batch_size, total) ==
    (IF validated THEN <<"sleep">> ELSE <<>>)
    \o (IF (k % batch_size = 0 \/ k = total)
           /\ BatchPause(((k - 1) \div batch_size) * batch_size, batch_size, total)
        THEN <<"pause">> ELSE <<>>)

ManagerInit ==
    /\ gRows \in SeqUpTo(ManagerRows, MaxManagerRows)
    /\ gTop = <<>>
    /\ gIdx = 0
    /\ gLog = <<>>
    /\ gValidated = <<>>
    /\ gLast = NoManagerCall
    /\ gBatchSize \in BatchSizes
    /\ gTrace = <<>>
    /\ gPc = "start"

\* main: cleaned_feeds = manager.clean_podcastindex_feeds();
\* top_feeds = cleaned_feeds[:50]
CleanAndCut ==
    /\ gPc = "start"
    /\ gTop' = Take(clean_podcastindex_feeds(gRows), TopLimit)
    /\ gIdx' = 1
    /\ gPc' = "batch"
    /\ UNCHANGED <<gRows, gLog, gValidated, gLast, gBatchSize, gTrace>>
    /\ UNCHANGED <<mergeVars, selectVars, scoreVars, filterVars, scalerVars,
                 expanderVars, dedupVars, saveVars, runVars, predictVars,
                 uploadVars>>

\* process_feeds_batch, one turn of the inner loop: a row without a url is
\* passed over; for any other validate_rss_feed, the append, the pause. An
\* exception that leaves validate_rss_feed ends the run.
ValidateRow ==
    /\ gPc = "batch"
    /\ gIdx <= Len(gTop)
    /\ IF gTop[gIdx].url = <<>>
       THEN /\ gIdx' = gIdx + 1
            /\ gTrace' = gTrace \o SleepsAfter(gIdx, FALSE, gBatchSize, Len(gTop))
            /\ UNCHANGED <<gLog, gValidated, gLast, gPc>>
       ELSE \E response \in ManagerResponses :
            \E result \in {validate_rss_feed(gTop[gIdx].url, response)} :
                /\ gLog' = Append(gLog, [url |-> gTop[gIdx].url, fault |-> response.fault,
                                         is_valid |-> result.is_valid])
                /\ gLast' = [called |-> TRUE, feed |-> response.feed, fault |-> response.fault,
                             is_valid |-> result.is_valid, error |-> result.error]
                /\ IF result.raised
                   THEN /\ gPc' = "aborted"
                        /\ gTrace' = Append(gTrace, "fetch")
                        /\ UNCHANGED <<gIdx, gValidated>>
                   ELSE /\ gValidated' =
                            IF result.is_valid
                            THEN Append(gValidated,
                                        BatchFeedData(gTop[gIdx].url, result.metrics))
                            ELSE gValidated
                        /\ gTrace' = Append(gTrace, "fetch")
                                        \o SleepsAfter(gIdx, TRUE, gBatchSize, Len(gTop))
                        /\ gIdx' = gIdx + 1
                        /\ gPc' = gPc
    /\ UNCHANGED <<gRows, gTop, gBatchSize>>
    /\ UNCHANGED <<mergeVars, selectVars, scoreVars, filterVars, scalerVars,
                 expanderVars, dedupVars, saveVars, runVars, predictVars,
                 uploadVars>>

\* return validated
ReturnBatch ==
    /\ gPc = "batch"
    /\ gIdx > Len(gTop)
    /\ gPc' = "returned"
    /\ UNCHANGED <<gRows, gTop, gIdx, gLog, gValidated, gLast, gBatchSize, gTrace>>
    /\ UNCHANGED <<mergeVars, selectVars, scoreVars, filterVars, scalerVars,
                 expanderVars, dedupVars, saveVars, runVars, predictVars,
                 uploadVars>>

ManagerNext == CleanAndCut \/ ValidateRow \/ ReturnBatch

\* ------------------------------------- properties of the run of feed_manager
FetchedUrls == {gLog[k].url : k \in 1..Len(gLog)}

\* C11 as stated: no fetch is ever issued for the URL of a row that the
\* prefilter rejected.
C11_NoFetchForRejectedUrl ==
    \A i \in 1..Len(gRows) : ~KeepsFeed(gRows[i]) => gRows[i].url \notin FetchedUrls

\* C11 amended: a row that the prefilter rejected is never handed to network
\* validation: every fetch is issued for a row that the prefilter kept, in the
\* order of the rows, so the URL of a rejected row is fetched only when a kept
\* row carries the same URL.
C11_FetchesOnlyKeptRows ==
    LET kept == KeepPositions(gRows, {i \in 1..Len(gRows) : KeepsFeed(gRows[i])}, 1)
    IN /\ Len(gLog) <= Len(kept)
       /\ \A k \in 1..Len(gLog) : gLog[k].url = kept[k].url
       /\ \A i \in 1..Len(gRows) :
            gRows[i].url \in FetchedUrls =>
                \E j \in 1..Len(gRows) : KeepsFeed(gRows[j]) /\ gRows[j].url = gRows[i].url

\* C11 witness: a run over a rejected row and a kept row with another URL has
\* returned after fetching the kept one only.
C11_Witness ==
    /\ gPc = "returned"
    /\ Len(gRows) = 2
    /\ ~KeepsFeed(gRows[1])
    /\ KeepsFeed(gRows[2])
    /\ gRows[1].url # gRows[2].url
    /\ FetchedUrls = {gRows[2].url}

\* ========================================================= expand_feeds.py
\* the word lists of the content fallback of extract_categories, in order
ContentKeywords ==
    << [cat |-> "Technology", keywords |-> {"tech", "technology", "programming", "software", "ai", "computer"}],
       [cat |-> "News", keywords |-> {"news", "politics", "current events", "journalism"}],
       [cat |-> "Business", keywords |-> {"business", "entrepreneur", "finance", "startup", "money"}],
       [cat |-> "Science", keywords |-> {"science", "research", "education", "learning"}],
       [cat |-> "Comedy", keywords |-> {"comedy", "humor", "funny", "laugh"}],
       [cat |-> "Health", keywords |-> {"health", "fitness", "wellness", "medical"}],
       [cat |-> "Society & Culture", keywords |-> {"history", "culture", "society", "documentary"}],
       [cat |-> "Sports", keywords |-> {"sports", "football", "basketball", "baseball"}] >>

\* QualityFeedExpander.extract_categories
expander_extract_categories(feed, candidate) ==
    LET fromTags == TagTerms(Take(feed.tags, 3))
        content == [i \in 1..Len(feed.words) |-> LowerWord(feed.words[i])]
        categories == IF fromTags # <<>> THEN fromTags
                      ELSE <<FirstMatch(ContentKeywords, content)>>
    IN Take(categories, 2)

NoExpanderData ==
    [rss_url |-> <<>>, title |-> "", categories |-> <<>>, language |-> "",
     quality_score |-> 0, total_episodes |-> 0, description |-> ""]

\* what a validate_feed call hands back: whether an exception left it, the
\* verdict, the feed_data, the requests it sent in order, and the score it
\* computed
Verdict(raised, is_valid, feed_data, ops, score) ==
    [raised |-> raised, is_valid |-> is_valid, feed_data |-> feed_data, ops |-> ops,
     score |-> score]

\* response.status_code != 200
ExpanderProbeAcceptsAll(status) == TRUE
ExpanderProbeAccepts(status) == status = 200

\* score < self.min_score
LowScoreAtThreshold(score, min_score) == score <= min_score
LowScore(score, min_score) == score < min_score

\* QualityFeedExpander.validate_feed, the body of its try block. response is
\* what the network and the parser do: fault says where an exception is
\* raised ("probe": requests.head; "score": inside calculate_quality_score,
\* whose own handler then returns 0; "parse": the second feedparser.parse),
\* status is the answer to the probe, feed the document the url serves
expander_validate_feed_body(candidate, response, min_score) ==
    LET feed == response.feed
        score == IF response.fault = "score" THEN 0
                 ELSE ScoreQE(feed, candidate, Today).score
    IN IF response.fault = "probe" THEN Verdict(TRUE, FALSE, NoExpanderData, <<"head">>, NoScore)
       ELSE IF ~ExpanderProbeAccepts(response.status)
       THEN Verdict(FALSE, FALSE, NoExpanderData, <<"head">>, NoScore)
       ELSE IF LowScore(score, min_score)
       THEN Verdict(FALSE, FALSE, NoExpanderData, <<"head", "parse">>, score)
       ELSE IF response.fault = "parse"
       THEN Verdict(TRUE, FALSE, NoExpanderData, <<"head", "parse", "parse">>, score)
       ELSE Verdict(FALSE, TRUE,
                [rss_url |-> candidate.url,
                 title |-> IF feed.title # "" THEN feed.title ELSE candidate.title,
                 categories |-> expander_extract_categories(feed, candidate),
                 language |-> IF feed.language # "" THEN feed.language ELSE "en",
                 quality_score |-> score,
                 total_episodes |-> feed.count,
                 description |-> feed.description],
                <<"head", "parse", "parse">>, score)

\* QualityFeedExpander.validate_feed: `except Exception` turns a raise into a
\* rejection
expander_validate_feed(candidate, response, min_score) ==
    LET result == expander_validate_feed_body(candidate, response, min_score)
    IN IF result.raised THEN Verdict(FALSE, FALSE, NoExpanderData, result.ops, result.score)
       ELSE result

\* the record kept of a validate_feed call
NoCall ==
    [url |-> <<>>, fault |-> "none", status |-> 0, ops |-> <<>>, is_valid |-> FALSE,
     score |-> NoScore, before |-> 0]

CallRecord(candidate, response, result, before) ==
    [url |-> candidate.url, fault |-> response.fault, status |-> response.status,
     ops |-> result.ops, is_valid |-> result.is_valid, score |-> result.score,
     before |-> before]

\* ---- inputs of QualityFeedExpander.process_candidates
ExpanderCandidatesAt(i) ==
    { [url |-> u, title |-> "Old Wars", itunes_id |-> "1200"] : u \in {FreshUrl(i), HttpAUpper} }

ExpanderCandidateLists ==
    UNION { {c \in [1..n -> UNION {ExpanderCandidatesAt(i) : i \in 1..n}] :
                \A i \in 1..n : c[i] \in ExpanderCandidatesAt(i)}
            : n \in 0..MaxExpanderCandidates }

\* the documents a url can serve to the expander: a long feed, a feed that
\* scores 60.0 for a candidate with an iTunes id, a feed of two entries that
\* scores 57.4, and one that does not parse
ExpanderFeeds ==
    { Document(51, FullEntry, FALSE, ThreeTags, <<"Ancient", "history">>),
      [Document(15, BareEntry, FALSE, <<>>, <<"Quiet", "Chat">>)
          EXCEPT !.head = <<FullEntry, FullEntry>>],
      Document(2, FullEntry, FALSE, <<>>, <<"daily", "tech">>),
      Document(0, BareEntry, TRUE, <<>>, <<>>) }

ExpanderResponses ==
    { [fault |-> "none", status |-> c, feed |-> f] : c \in {200, 404}, f \in ExpanderFeeds }
    \cup
    { [fault |-> x, status |-> 200, feed |-> f]
        : x \in {"probe", "score", "parse"}, f \in {g \in ExpanderFeeds : g.count = 51} }

\* target_count: the default of process_candidates and main, and a small one
TargetCounts == {2, 25}

\* min_score: the default of the constructor and main, and a lower one
MinScores == {500, 600}

\* process_candidates up to the loop
ExpanderInit ==
    /\ xExisting \in {Shelf(0), Shelf(1)}
    /\ xCandidates \in ExpanderCandidateLists
    /\ xTargetCount \in TargetCounts
    /\ xMinScore \in MinScores
    /\ xIdx = 1
    /\ xValidated = <<>>
    /\ xUrls = {Lower(xExisting[i].rss_url) : i \in 1..Len(xExisting)}
    /\ xProcessed = 0
    /\ xLast = NoCall
    /\ xTrace = <<>>
    /\ xFaults = 0
    /\ xPc = "loop"

\* the loop without the test of the target
ExpanderInLoopPastTarget ==
    /\ xPc = "loop"
    /\ xIdx <= Len(xCandidates)

\* for candidate in candidates: if len(validated) >= target_count: break
ExpanderInLoop ==
    /\ xPc = "loop"
    /\ xIdx <= Len(xCandidates)
    /\ Len(xValidated) < xTargetCount

\* if url in existing_urls: continue
ExpanderSkipKnownUrl ==
    /\ ExpanderInLoop
    /\ Lower(xCandidates[xIdx].url) \in xUrls
    /\ xIdx' = xIdx + 1
    /\ UNCHANGED <<xExisting, xCandidates, xTargetCount, xMinScore, xValidated, xUrls,
                   xProcessed, xLast, xTrace, xFaults, xPc>>
    /\ UNCHANGED <<mergeVars, selectVars, scoreVars, filterVars, scalerVars,
                 managerVars, dedupVars, saveVars, runVars, predictVars,
                 uploadVars>>

\* one turn of the loop for a url not seen before: validate_feed, the append,
\* the pause. An exception that leaves validate_feed ends the run.
ExpanderValidateCandidate ==
    /\ ExpanderInLoop
    /\ Lower(xCandidates[xIdx].url) \notin xUrls
    /\ xProcessed' = xProcessed + 1
    /\ \E response \in ExpanderResponses :
        \E result \in {expander_validate_feed(xCandidates[xIdx], response, xMinScore)} :
            /\ xLast' = CallRecord(xCandidates[xIdx], response, result, Len(xValidated))
            /\ xFaults' = IF response.fault = "none" THEN xFaults ELSE xFaults + 1
            /\ IF result.raised
               THEN /\ xPc' = "aborted"
                    /\ xTrace' = Append(xTrace, "fetch")
                    /\ UNCHANGED <<xIdx, xValidated, xUrls>>
               ELSE /\ xValidated' = IF result.is_valid THEN Append(xValidated, result.feed_data)
                                     ELSE xValidated
                    /\ xUrls' = IF result.is_valid
                                THEN xUrls \cup {Lower(xCandidates[xIdx].url)}
                                ELSE xUrls
                    /\ xTrace' = xTrace \o <<"fetch", "sleep">>
                    /\ xIdx' = xIdx + 1
                    /\ xPc' = xPc
    /\ UNCHANGED <<xExisting, xCandidates, xTargetCount, xMinScore>>
    /\ UNCHANGED <<mergeVars, selectVars, scoreVars, filterVars, scalerVars,
                 managerVars, dedupVars, saveVars, runVars, predictVars,
                 uploadVars>>

\* the loop ends (list exhausted, or break on target_count): return validated
ExpanderReturnValidated ==
    /\ xPc = "loop"
    /\ ~ExpanderInLoop
    /\ xPc' = "returned"
    /\ UNCHANGED <<xExisting, xCandidates, xTargetCount, xMinScore, xIdx, xValidated, xUrls,
                   xProcessed, xLast, xTrace, xFaults>>
    /\ UNCHANGED <<mergeVars, selectVars, scoreVars, filterVars, scalerVars,
                 managerVars, dedupVars, saveVars, runVars, predictVars,
                 uploadVars>>

ExpanderNext == ExpanderSkipKnownUrl \/ ExpanderValidateCandidate \/ ExpanderReturnValidated

\* ========================================================= the validating loops
\* the three loops side by side: a run is one of process_feeds_batch (fed by
\* main), QualityFeedExpander.process_candidates, PremiumScaler.process_candidates
ValidatorsNext == ManagerNext \/ ExpanderNext \/ ScalerNext

\* C12: an exception raised while probing, fetching, parsing or scoring one
\* candidate rejects that candidate only: the loop of process_feeds_batch and
\* of QualityFeedExpander.process_candidates never aborts, the call in which
\* the exception was raised accepts nothing, and a loop that has returned has
\* gone through every row (process_feeds_batch) or through every candidate up
\* to the break on target_count (process_candidates) and holds exactly the
\* accepted feeds.
C12_FaultRejectsThatCandidateOnly ==
    /\ gPc # "aborted"
    /\ xPc # "aborted"
    /\ \A i \in 1..Len(gLog) : gLog[i].fault # "none" => ~gLog[i].is_valid
    /\ xLast.fault # "none" => (~xLast.is_valid /\ Len(xValidated) = xLast.before)
    /\ gPc = "returned" =>
          /\ Len(gLog) = Len(gTop)
          /\ Len(gValidated) = Cardinality({i \in 1..Len(gLog) : gLog[i].is_valid})
    /\ xPc = "returned" =>
          (xIdx = Len(xCandidates) + 1 \/ Len(xValidated) = xTargetCount)

\* a run of process_candidates in which a call raised, a later candidate was
\* validated and accepted, and the accepted feeds were returned
C12_Witness ==
    /\ xPc = "returned"
    /\ xFaults > 0
    /\ xLast.fault = "none"
    /\ xLast.is_valid
    /\ Len(xValidated) > 0

\* the same for process_feeds_batch: a row whose validation raised, then a
\* later row accepted
C12_ManagerWitness ==
    /\ gPc = "returned"
    /\ \E i, j \in 1..Len(gLog) : i < j /\ gLog[i].fault # "none" /\ gLog[j].is_valid

\* one of the first ten entries of the document carries a date of the last
\* 180 days
FreshInFirstTen(feed) ==
    \E i \in 1..10 :
        /\ i <= feed.count
        /\ EntryAt(feed, i).dated
        /\ EntryAt(feed, i).published > Today - 180

\* the first check that a document fails, in the order parse failure, too few
\* episodes, stale
FirstFailedCheck(feed) ==
    IF feed.bozo /\ feed.count = 0 THEN "Failed to parse feed"
    ELSE IF feed.count < 3 THEN "Too few episodes"
    ELSE IF ~FreshInFirstTen(feed) THEN "No recent episodes"
    ELSE ""

\* C26: validate_rss_feed succeeds only if one of the first 10 entries of the
\* feed has a publish timestamp newer than 180 days before now; a feed whose
\* recent entries lie beyond the first 10, or whose first 10 entries have no
\* timestamp, is rejected as stale; the checks are applied in the order parse
\* failure, too few episodes, stale.
C26_FreshFirstTenChecksInOrder ==
    gLast.called =>
        /\ gLast.is_valid => FreshInFirstTen(gLast.feed)
        /\ gLast.fault = "none" =>
              /\ gLast.error = FirstFailedCheck(gLast.feed)
              /\ gLast.is_valid <=> gLast.error = ""

\* C26 witness: a feed of twelve entries whose first ten are 200 days old and
\* whose last two are five days old is rejected as stale
C26_Witness ==
    /\ gLast.called
    /\ gLast.feed.count > 10
    /\ \A i \in 1..10 : EntryAt(gLast.feed, i).dated
    /\ \E i \in 11..gLast.feed.count :
          EntryAt(gLast.feed, i).published > Today - 180
    /\ ~gLast.is_valid
    /\ gLast.error = "No recent episodes"

\* the same for a feed whose first ten entries carry no date
C26_UndatedWitness ==
    /\ gLast.called
    /\ gLast.feed.count > 10
    /\ \A i \in 1..10 : ~EntryAt(gLast.feed, i).dated
    /\ EntryAt(gLast.feed, 11).dated
    /\ gLast.error = "No recent episodes"

\* a feed whose tenth entry alone is recent is accepted
C26_TenthEntryWitness ==
    /\ gLast.is_valid
    /\ \A i \in 1..9 : ~IsRecent(EntryAt(gLast.feed, i), Today, 180)
    /\ gValidated # <<>>
    /\ gValidated[Len(gValidated)].recent_episodes = 1

\* a feed of two old entries is rejected for its length, not as stale
C26_OrderWitness ==
    /\ gLast.called
    /\ gLast.feed.count = 2
    /\ ~FreshInFirstTen(gLast.feed)
    /\ gLast.error = "Too few episodes"

\* ------------------------------------------------ the pace of the loops
\* the positions of an event in a trace
Events(trace, event) == {k \in 1..Len(trace) : trace[k] = event}

\* between two validations of a trace a sleep or a pause takes place
DelayBetweenFetches(trace) ==
    \A i, j \in Events(trace, "fetch") :
        i < j => \E k \in (i + 1)..(j - 1) : trace[k] \in {"sleep", "pause"}

\* the sleep of the loop follows every validation that returned
SleepAfterEachFetch(trace, returned) ==
    \A k \in Events(trace, "fetch") :
        (k < Len(trace) \/ returned) => (k < Len(trace) /\ trace[k + 1] = "sleep")

\* the batches of `total` rows
Batches(total, batch_size) == (total + batch_size - 1) \div batch_size

\* the pauses stand where a batch ends and another one follows
PausesBetweenBatches ==
    /\ \A k \in Events(gTrace, "pause") :
          LET done == Cardinality({f \in Events(gTrace, "fetch") : f < k})
          IN /\ done % gBatchSize = 0
             /\ done > 0
             /\ done < Len(gTop)
    /\ gPc = "returned" =>
          Cardinality(Events(gTrace, "pause")) = Max(0, Batches(Len(gTop), gBatchSize) - 1)

\* C27: in every processing loop a delay separates the fetches of two
\* successive candidates: process_feeds_batch sleeps after each validated
\* candidate and pauses after every batch except the last, and both
\* process_candidates sleep after every validation.
C27_DelayBetweenValidations ==
    /\ DelayBetweenFetches(gTrace)
    /\ DelayBetweenFetches(xTrace)
    /\ DelayBetweenFetches(pTrace)
    /\ SleepAfterEachFetch(gTrace, gPc # "aborted")
    /\ SleepAfterEachFetch(xTrace, xPc # "aborted")
    /\ SleepAfterEachFetch(pTrace, TRUE)
    /\ gPc \in {"batch", "returned"} => PausesBetweenBatches

\* C27 witness: three rows in batches of two: a pause after the second row
\* and none after the third
C27_Witness ==
    /\ gPc = "returned"
    /\ gBatchSize < Len(gTop)
    /\ gTrace = <<"fetch", "sleep", "fetch", "sleep", "pause", "fetch", "sleep">>

\* two validations of process_candidates, in either program
C27_ExpanderWitness == xPc = "returned" /\ Cardinality(Events(xTrace, "fetch")) >= 2

C27_ScalerWitness == pPc = "returned" /\ Cardinality(Events(pTrace, "fetch")) >= 2

\* C28: once the number of accepted feeds of process_candidates has reached
\* the target no probe and no fetch is issued any more: every validate_feed
\* call is made with fewer accepted feeds than the target.
C28_ValidationsBelowTarget ==
    /\ xLast.url # <<>> => xLast.before < xTargetCount
    /\ pLast.url # <<>> => pLast.before < pTargetNew
    /\ Len(xValidated) >= xTargetCount => ~ENABLED ExpanderValidateCandidate
    /\ Len(pValidated) >= pTargetNew => ~ENABLED ValidateCandidate

\* C28 witness: the expander reached its target with the last call it made
\* and returned with a candidate left that it never validated
C28_Witness ==
    /\ xPc = "returned"
    /\ xLast.is_valid
    /\ xLast.before = xTargetCount - 1
    /\ Len(xValidated) = xTargetCount
    /\ xIdx <= Len(xCandidates)
    /\ Lower(xCandidates[xIdx].url) \notin xUrls

\* the same in the scaler
C28_ScalerWitness ==
    /\ pPc = "returned"
    /\ pLast.is_valid
    /\ pLast.before = pTargetNew - 1
    /\ Len(pValidated) = pTargetNew
    /\ pIdx <= Len(pCandidates)
    /\ Lower(pCandidates[pIdx].url) \notin pUrls

\* the least number of entries of an accepted feed (len(feed.entries) < 3)
MinEntries == 3

EnoughEntries(feeds) == \A i \in 1..Len(feeds) : feeds[i].total_episodes >= MinEntries

\* C13: every feed accepted by a validator (validate_rss_feed, and validate_feed
\* of QualityFeedExpander and of PremiumScaler) has at least 3 entries.
C13_AcceptedHaveThreeEntries ==
    /\ EnoughEntries(gValidated)
    /\ EnoughEntries(xValidated)
    /\ EnoughEntries(pValidated)

\* C13 for validate_rss_feed alone, which tests the entry count
C13_ManagerAcceptedHaveThreeEntries == EnoughEntries(gValidated)

\* what a validate_feed call may have asked of the network: nothing but the
\* probe, or the probe and then the two parses
ProbeFirst(ops) == ops # <<>> => ops[1] = "head"

Fetched(ops) == \E i \in 1..Len(ops) : ops[i] = "parse"

\* C14: in validate_feed the probe comes first and short-circuits: a probe
\* status outside the accepted set ({200} in QualityFeedExpander, {200, 301,
\* 302} in PremiumScaler) rejects the candidate with no feed fetch, and a
\* fetch is made only after a probe with an accepted status.
C14_ProbeFirstAndShortCircuits ==
    /\ ProbeFirst(xLast.ops)
    /\ ProbeFirst(pLast.ops)
    /\ (xLast.url # <<>> /\ xLast.fault # "probe" /\ xLast.status # 200) =>
          (~xLast.is_valid /\ ~Fetched(xLast.ops) /\ Len(xValidated) = xLast.before)
    /\ (pLast.url # <<>> /\ ~pLast.raised /\ pLast.status \notin {200, 301, 302}) =>
          (~pLast.is_valid /\ ~Fetched(pLast.ops))
    /\ Fetched(xLast.ops) => (xLast.fault # "probe" /\ xLast.status = 200)
    /\ Fetched(pLast.ops) => (~pLast.raised /\ pLast.status \in {200, 301, 302})

\* a probe answered 404: QualityFeedExpander rejects after the probe alone
C14_Witness ==
    /\ xLast.url # <<>>
    /\ xLast.fault = "none"
    /\ xLast.status = 404
    /\ xLast.ops = <<"head">>
    /\ ~xLast.is_valid

\* the same in PremiumScaler, and a redirect that it follows with a fetch
C14_ScalerWitness ==
    pLast.url # <<>> /\ pLast.status = 404 /\ pLast.ops = <<"head">> /\ ~pLast.is_valid

C14_FetchWitness == pLast.status = 302 /\ Fetched(pLast.ops) /\ pLast.is_valid

ScoresAtLeast(feeds, min_score) ==
    \A i \in 1..Len(feeds) : feeds[i].quality_score >= min_score

\* C15: every feed accepted by validate_feed scores at least min_score: a
\* call that computed a score below the threshold rejects the candidate, which
\* is not appended, and a call that computed a score equal to the threshold
\* (and met no exception afterwards) accepts it.
C15_AcceptedScoreAtLeastMinScore ==
    /\ ScoresAtLeast(xValidated, xMinScore)
    /\ ScoresAtLeast(pValidated, MinScore)
    /\ (xLast.score # NoScore /\ xLast.score < xMinScore) =>
          (~xLast.is_valid /\ Len(xValidated) = xLast.before)
    /\ (pLast.score # NoScore /\ pLast.score < MinScore) => ~pLast.is_valid
    /\ (xLast.score = xMinScore /\ xLast.fault = "none") =>
          (xLast.is_valid /\ Len(xValidated) = xLast.before + 1)
    /\ pLast.score = MinScore => pLast.is_valid

\* QualityFeedExpander accepts a feed that scores exactly min_score
C15_Witness ==
    /\ xLast.score = xMinScore
    /\ xLast.is_valid
    /\ Len(xValidated) = xLast.before + 1

\* PremiumScaler accepts one that scores exactly 55.0, and each class rejects
\* a score just below its threshold
C15_ScalerWitness == pLast.score = MinScore /\ pLast.is_valid

C15_BelowWitness ==
    /\ xLast.score # NoScore
    /\ xLast.score < xMinScore
    /\ xLast.score >= xMinScore - 30
    /\ ~xLast.is_valid

\* the cap on the labels of a feed (categories[:2])
MaxLabels == 2

LabelsWithin(feeds, most) ==
    \A i \in 1..Len(feeds) :
        Len(feeds[i].categories) >= 1 /\ Len(feeds[i].categories) <= most

\* C16: the category list assigned to a feed holds at least 1 and at most 2
\* labels, for each extractor (FeedManager.extract_categories,
\* QualityFeedExpander.extract_categories,
\* PremiumScaler.extract_enhanced_categories) and any number of subject tags.
C16_OneOrTwoLabels ==
    /\ LabelsWithin(gValidated, MaxLabels)
    /\ LabelsWithin(xValidated, MaxLabels)
    /\ LabelsWithin(pValidated, MaxLabels)

\* C16 for the two extractors that cut at 2
C16_ExpanderAndScalerOneOrTwoLabels ==
    /\ LabelsWithin(xValidated, MaxLabels)
    /\ LabelsWithin(pValidated, MaxLabels)

\* ================================================ FeedManager.detect_duplicates
\* str.strip('/')
RECURSIVE LStripSlash(_)
LStripSlash(s) == IF s # <<>> /\ Head(s) = "/" THEN LStripSlash(Tail(s)) ELSE s

RECURSIVE RStripSlash(_)
RStripSlash(s) ==
    IF s # <<>> /\ s[Len(s)] = "/" THEN RStripSlash(SubSeq(s, 1, Len(s) - 1)) ELSE s

StripSlash(s) == RStripSlash(LStripSlash(s))

\* feed.get('url', '').lower().strip('/')
UrlKey(url) == StripSlash(Lower(url))

KeyChars ==
    { "a", "b", "c", "d", "e", "f", "g", "h", "i", "j", "k", "l", "m", "n", "o", "p", "q",
      "r", "s", "t", "u", "v", "w", "x", "y", "z",
      "0", "1", "2", "3", "4", "5", "6", "7", "8", "9" }

\* re.sub(r'[^a-z0-9]', '', title)
RECURSIVE KeepKeyChars(_)
KeepKeyChars(s) ==
    IF s = <<>> THEN <<>>
    ELSE (IF Head(s) \in KeyChars THEN <<Head(s)>> ELSE <<>>) \o KeepKeyChars(Tail(s))

\* feed.get('title', '').lower().strip()
CleanTitle(title) == Strip(Lower(title))

TitleKey(title) == KeepKeyChars(CleanTitle(title))

\* the locals of detect_duplicates before the loop; seen_titles is the set of
\* its (key, feed) items
NoneSeen == [seen_urls |-> {}, seen_titles |-> {}, duplicates |-> {}]

\* seen_titles[key]
SeenFeed(seen_titles, key) == (CHOOSE item \in seen_titles : item.key = key).feed

\* one turn of the loop of detect_duplicates: first the URL test, then the
\* title test
SeeFeed(seen, feed) ==
    LET url == UrlKey(feed.url)
        title == CleanTitle(feed.title)
        title_key == TitleKey(feed.title)
        afterUrl ==
            IF url \in seen.seen_urls
            THEN [seen EXCEPT !.duplicates = @ \cup {url}]
            ELSE [seen EXCEPT !.seen_urls = @ \cup {url}]
        known == \E item \in seen.seen_titles : item.key = title_key
    IN IF title = <<>> THEN afterUrl
       ELSE IF ~known
       THEN [afterUrl EXCEPT !.seen_titles = @ \cup {[key |-> title_key, feed |-> feed]}]
       ELSE LET existing_feed == SeenFeed(seen.seen_titles, title_key)
            IN IF feed.quality_score > existing_feed.quality_score
               THEN [afterUrl EXCEPT
                        !.duplicates = @ \cup {existing_feed.url},
                        !.seen_titles = (@ \ {[key |-> title_key, feed |-> existing_feed]})
                                            \cup {[key |-> title_key, feed |-> feed]}]
               ELSE [afterUrl EXCEPT !.duplicates = @ \cup {url}]

RECURSIVE SeeAll(_, _)
SeeAll(seen, feeds) ==
    IF feeds = <<>> THEN seen ELSE SeeAll(SeeFeed(seen, Head(feeds)), Tail(feeds))

\* FeedManager.detect_duplicates
detect_duplicates(feeds) == SeeAll(NoneSeen, feeds).duplicates

\* ---- inputs of detect_duplicates
HttpASlash == HttpA \o <<"/">>
HttpCSlash == HttpC \o <<"/">>

DupUrls == {HttpA, HttpASlash, HttpAUpper, HttpC, HttpCSlash}

DupTitles == { <<"S", "h", "o", "w">>, <<"s", "h", "o", "w", "!">>, <<>> }

DupScores == {600, 800}

DupRecords ==
    { [url |-> u, title |-> t, quality_score |-> q]
        : u \in DupUrls, t \in DupTitles, q \in DupScores }

DedupInit ==
    /\ dFeeds \in SeqUpTo(DupRecords, MaxDupFeeds)
    /\ dDuplicates = {}
    /\ dPc = "start"

\* duplicates = manager.detect_duplicates(feeds)
DetectDuplicates ==
    /\ dPc = "start"
    /\ dDuplicates' = detect_duplicates(dFeeds)
    /\ dPc' = "detected"
    /\ UNCHANGED dFeeds
    /\ UNCHANGED <<mergeVars, selectVars, scoreVars, filterVars, scalerVars,
                 managerVars, expanderVars, saveVars, runVars, predictVars,
                 uploadVars>>

DedupNext == DetectDuplicates

\* ------------------------------------------- properties of detect_duplicates
\* the records left when the returned set is applied to the collection: those
\* whose url is not in the set
Survivors == {i \in 1..Len(dFeeds) : dFeeds[i].url \notin dDuplicates}

\* the same with the set applied to the keys of the urls
SurvivorsByKey == {i \in 1..Len(dFeeds) : UrlKey(dFeeds[i].url) \notin dDuplicates}

TwinUrls ==
    /\ Len(dFeeds) = 2
    /\ dFeeds[1].url # dFeeds[2].url
    /\ UrlKey(dFeeds[1].url) = UrlKey(dFeeds[2].url)

\* C17: of two records whose URLs differ only by a trailing slash or by letter
\* case, detect_duplicates drops the later-seen one and retains the first-seen
\* one: applying the returned set leaves exactly the first record.
C17_FirstSeenTwinSurvives ==
    (dPc = "detected" /\ TwinUrls) => Survivors = {1}

\* C17 with the set applied to the keys of the urls
C17_FirstSeenTwinSurvivesByKey ==
    (dPc = "detected" /\ TwinUrls) => SurvivorsByKey = {1}

\* what detect_duplicates does return for such a pair: the key of the url
C17_TwinKeyReturned ==
    (dPc = "detected" /\ TwinUrls) => UrlKey(dFeeds[1].url) \in dDuplicates

\* the urls of the records are pairwise distinct, also after lower().strip('/')
DistinctUrls ==
    \A i, j \in 1..Len(dFeeds) : i # j => UrlKey(dFeeds[i].url) # UrlKey(dFeeds[j].url)

Titled(i) == CleanTitle(dFeeds[i].title) # <<>>

\* the records that share the title key of record i
TitleGroup(i) ==
    {j \in 1..Len(dFeeds) : Titled(j) /\ TitleKey(dFeeds[j].title) = TitleKey(dFeeds[i].title)}

\* the record of a group to keep: the highest quality_score, the earliest of
\* those on equal scores
Best(group) ==
    CHOOSE b \in group :
        \A j \in group :
            \/ dFeeds[b].quality_score > dFeeds[j].quality_score
            \/ (dFeeds[b].quality_score = dFeeds[j].quality_score /\ b <= j)

Unflagged(group) == group \cap Survivors

OneUnflaggedPerTitle ==
    \A i \in 1..Len(dFeeds) : Titled(i) => Unflagged(TitleGroup(i)) = {Best(TitleGroup(i))}

\* C18: among records with pairwise distinct URLs that share a title key,
\* detect_duplicates leaves exactly one out of the returned set: the one with
\* the highest quality_score, the earliest-seen on equal scores.
C18_BestOfTitleGroupUnflagged ==
    (dPc = "detected" /\ DistinctUrls) => OneUnflaggedPerTitle

\* C18 for urls that are their own key (lower case, no slash at either end)
C18_BestUnflaggedForPlainUrls ==
    (/\ dPc = "detected"
     /\ DistinctUrls
     /\ \A i \in 1..Len(dFeeds) : dFeeds[i].url = UrlKey(dFeeds[i].url))
        => OneUnflaggedPerTitle

C18_PlainWitness ==
    /\ dPc = "detected"
    /\ DistinctUrls
    /\ \A i \in 1..Len(dFeeds) : dFeeds[i].url = UrlKey(dFeeds[i].url)
    /\ \E i \in 1..Len(dFeeds) : Cardinality(TitleGroup(i)) >= 2

\* the records that share the normalized url of record i
UrlGroup(i) == {j \in 1..Len(dFeeds) : UrlKey(dFeeds[j].url) = UrlKey(dFeeds[i].url)}

\* C29: detect_duplicates never eliminates a whole duplicate group: for every
\* normalized url and every title key of the input at least one record that
\* carries it survives when the returned set is applied.
C29_EveryGroupKeepsARecord ==
    dPc = "detected" =>
        \A i \in 1..Len(dFeeds) :
            /\ UrlGroup(i) \cap Survivors # {}
            /\ Titled(i) => TitleGroup(i) \cap Survivors # {}

\* C29 for the groups of two and more records only, with the set applied to
\* the urls as written and to their keys
C29_EveryPairKeepsARecord ==
    dPc = "detected" =>
        \A i \in 1..Len(dFeeds) :
            /\ Cardinality(UrlGroup(i)) >= 2 => UrlGroup(i) \cap Survivors # {}
            /\ Cardinality(TitleGroup(i)) >= 2 => TitleGroup(i) \cap Survivors # {}

C29_EveryPairKeepsARecordByKey ==
    dPc = "detected" =>
        \A i \in 1..Len(dFeeds) :
            /\ Cardinality(UrlGroup(i)) >= 2 => UrlGroup(i) \cap SurvivorsByKey # {}
            /\ Cardinality(TitleGroup(i)) >= 2 => TitleGroup(i) \cap SurvivorsByKey # {}

\* what does hold: the set names the key of every url that comes twice, so
\* no record of such a group is left when the set is applied to the keys
C29_RepeatedUrlLosesEveryRecord ==
    dPc = "detected" =>
        \A i \in 1..Len(dFeeds) :
            Cardinality(UrlGroup(i)) >= 2 => UrlGroup(i) \cap SurvivorsByKey = {}

\* two records with one url and one title, the first with the higher score:
\* both are dropped
C29_BothTwinsDropped ==
    /\ dPc = "detected"
    /\ Len(dFeeds) = 2
    /\ dFeeds[1].url = dFeeds[2].url
    /\ Titled(1)
    /\ dFeeds[1].title = dFeeds[2].title
    /\ dFeeds[1].quality_score > dFeeds[2].quality_score
    /\ Survivors = {}

\* ========================================================= the global target
\* C19: a selection pass never accepts more new records than the global
\* target: process_candidates of QualityFeedExpander and of PremiumScaler
\* hold at most target_count / target_new records, and select_balanced_feeds
\* called with target_total = T returns at most T records.
C19_NeverMoreThanTarget ==
    /\ Len(xValidated) <= xTargetCount
    /\ Len(pValidated) <= pTargetNew
    /\ sPc = "selected" => Len(sSelected) <= sTargetTotal

\* C19 for the two process_candidates loops, which test the target before
\* every candidate
C19_LoopsStopAtTarget ==
    /\ Len(xValidated) <= xTargetCount
    /\ Len(pValidated) <= pTargetNew

\* both loops break on the target with candidates left
C19_LoopsWitness == xPc = "returned" /\ Len(xValidated) = xTargetCount /\ xIdx <= Len(xCandidates)

C19_ScalerLoopWitness ==
    pPc = "returned" /\ Len(pValidated) = pTargetNew /\ pIdx <= Len(pCandidates)

\* C19 for the call main makes, target_total = 100
C19_WithinTargetOfMain ==
    (sPc = "selected" /\ sTargetTotal = TargetTotal) => Len(sSelected) <= sTargetTotal

\* ------------------------------------------- the urls of a selection pass
\* two urls that differ at most in the case of their letters
EqualIgnoringCase(u, v) ==
    /\ Len(u) = Len(v)
    /\ \A i \in 1..Len(u) : LowerChar(u[i]) = LowerChar(v[i])

\* no accepted record repeats the url of an existing record or of a record
\* accepted before it
NoUrlTwice(existing, accepted) ==
    \A k \in 1..Len(accepted) :
        /\ \A i \in 1..Len(existing) :
              ~EqualIgnoringCase(existing[i].rss_url, accepted[k].rss_url)
        /\ \A j \in 1..(k - 1) :
              ~EqualIgnoringCase(accepted[j].rss_url, accepted[k].rss_url)

\* C22: at every point of a selection pass (process_candidates of
\* QualityFeedExpander and of PremiumScaler, select_balanced_feeds) no accepted
\* record has a url equal, case-insensitively, to the url of an existing
\* record or of a record accepted earlier in the pass.
C22_NoAcceptedUrlTwice ==
    /\ NoUrlTwice(xExisting, xValidated)
    /\ NoUrlTwice(pExisting, pValidated)
    /\ NoUrlTwice(sCurrent, sSelected)

\* the candidates of `candidates` whose url is that of an existing record in
\* another case
KnownInOtherCase(existing, candidates) ==
    {i \in 1..Len(candidates) :
        \E e \in 1..Len(existing) :
            /\ EqualIgnoringCase(existing[e].rss_url, candidates[i].url)
            /\ existing[e].rss_url # candidates[i].url}

\* C22 witness: the expander accepted a record and passed over a candidate
\* whose url is that of an existing record in capitals
C22_Witness ==
    /\ xPc = "returned"
    /\ xValidated # <<>>
    /\ KnownInOtherCase(xExisting, xCandidates) # {}

\* the same in the scaler and in select_balanced_feeds
C22_ScalerWitness ==
    /\ pPc = "returned"
    /\ pValidated # <<>>
    /\ KnownInOtherCase(pExisting, pCandidates) # {}

C22_SelectWitness ==
    /\ sPc = "selected"
    /\ sSelected # <<>>
    /\ KnownInOtherCase(sCurrent, sCandidates) # {}

\* a url that comes twice in the list of candidates is accepted once
C22_RepeatedCandidateWitness ==
    /\ xPc = "returned"
    /\ \E i, j \in 1..Len(xCandidates) :
          /\ i < j
          /\ j < xIdx
          /\ xCandidates[i].url = xCandidates[j].url
          /\ \E k \in 1..Len(xValidated) : xValidated[k].rss_url = xCandidates[i].url

\* ========================================================= save_feeds
\* a file on disk: whether it exists, the records it holds, and whether the
\* text is a whole JSON list (its closing bracket is there)
NoFile == [exists |-> FALSE, records |-> <<>>, closed |-> FALSE]

\* the file left by an earlier run
OldFile ==
    [exists |-> TRUE,
     records |-> <<[rss_url |-> HttpsB, title |-> "Curated", categories |-> <<"History">>,
                    language |-> "en"]>>,
     closed |-> TRUE]

\* open(output_file, 'w'): the file is created, or cut to length 0
Truncated == [exists |-> TRUE, records |-> <<>>, closed |-> FALSE]

\* the file that holds the whole list
WholeFile(feeds) == [exists |-> TRUE, records |-> feeds, closed |-> TRUE]

\* ---- inputs of save_feeds
SavedRecords ==
    { [rss_url |-> u, title |-> "Tech Weekly", categories |-> <<"Technology">>, language |-> "en"]
        : u \in {HttpA, HttpC} }
    \cup
    { [rss_url |-> HttpAUpper, title |-> "Old Wars", categories |-> <<"History", "Education">>,
       language |-> "en"] }

SaveInit ==
    /\ wFeeds \in SeqUpTo(SavedRecords, MaxSaved)
    /\ wBefore \in {NoFile, OldFile}
    /\ wFile = wBefore
    /\ wWritten = 0
    /\ wPc = "start"

\* with open(output_file, 'w') as f
OpenForWriting ==
    /\ wPc = "start"
    /\ wFile' = Truncated
    /\ wPc' = "writing"
    /\ UNCHANGED <<wFeeds, wBefore, wWritten>>
    /\ UNCHANGED <<mergeVars, selectVars, scoreVars, filterVars, scalerVars,
                 managerVars, expanderVars, dedupVars, runVars, predictVars,
                 uploadVars>>

\* json.dump(feeds, f, indent=2) writes the list piece by piece: one more
\* record reaches the file
WriteRecord ==
    /\ wPc = "writing"
    /\ wWritten < Len(wFeeds)
    /\ wFile' = [wFile EXCEPT !.records = Append(@, wFeeds[wWritten + 1])]
    /\ wWritten' = wWritten + 1
    /\ UNCHANGED <<wFeeds, wBefore, wPc>>
    /\ UNCHANGED <<mergeVars, selectVars, scoreVars, filterVars, scalerVars,
                 managerVars, expanderVars, dedupVars, runVars, predictVars,
                 uploadVars>>

\* the closing bracket is written and the with block closes the file
CloseFile ==
    /\ wPc = "writing"
    /\ wWritten = Len(wFeeds)
    /\ wFile' = [wFile EXCEPT !.closed = TRUE]
    /\ wPc' = "saved"
    /\ UNCHANGED <<wFeeds, wBefore, wWritten>>
    /\ UNCHANGED <<mergeVars, selectVars, scoreVars, filterVars, scalerVars,
                 managerVars, expanderVars, dedupVars, runVars, predictVars,
                 uploadVars>>

\* the process dies, or open or a write raises (nothing in save_feeds or its
\* callers handles it): the file stays as it is on disk
Crash ==
    /\ wPc \in {"start", "writing"}
    /\ wPc' = "crashed"
    /\ UNCHANGED <<wFeeds, wBefore, wFile, wWritten>>
    /\ UNCHANGED <<mergeVars, selectVars, scoreVars, filterVars, scalerVars,
                 managerVars, expanderVars, dedupVars, runVars, predictVars,
                 uploadVars>>

SaveNext == OpenForWriting \/ WriteRecord \/ CloseFile \/ Crash

\* ------------------------------------------------- properties of save_feeds
\* C20: the output file is written atomically: when the run crashes or the
\* write fails while the collection is being saved, the output file is absent
\* or unchanged, or holds the complete collection, never a part of it.
C20_NeverPartlyWritten ==
    wPc = "crashed" => (wFile = wBefore \/ wFile = WholeFile(wFeeds))

\* what does hold: a save that ends leaves the whole collection, and a crash
\* leaves the file as it was or cut short
C20_WholeWhenSaved ==
    /\ wPc = "saved" => wFile = WholeFile(wFeeds)
    /\ (wPc = "crashed" /\ wFile # wBefore) => (wFile.exists /\ ~wFile.closed)

C20_SavedWitness == wPc = "saved" /\ Len(wFeeds) = MaxSaved /\ wBefore = OldFile

\* ========================================================= main of feed_manager.py
\* main: merge_feeds(existing, validated, max_feeds=50)
MainMaxFeeds == 50

\* no output file written
NoOutput == <<"no file">>

\* feeds.json as shipped, when it is there
RunShelf ==
    <<[rss_url |-> HttpsB, title |-> "Curated One", categories |-> <<"News">>, language |-> "en"]>>

\* FeedManager.load_existing_feeds: FileNotFoundError is caught and gives [];
\* any other failure of json.load leaves the method
load_existing_feeds(file) ==
    IF file = "missing" THEN [raised |-> FALSE, feeds |-> <<>>]
    ELSE IF file = "malformed" THEN [raised |-> TRUE, feeds |-> <<>>]
    ELSE [raised |-> FALSE, feeds |-> RunShelf]

\* FeedManager.load_podcastindex_data: every exception is caught and gives []
load_podcastindex_data(file, rows) == IF file = "missing" THEN <<>> ELSE rows

\* FeedManager.process_feeds_batch as a whole, responses[i] being what the
\* network serves for row i
RECURSIVE process_feeds_batch(_, _)
process_feeds_batch(feeds, responses) ==
    IF feeds = <<>> THEN <<>>
    ELSE LET url == Head(feeds).url
             result == validate_rss_feed(url, Head(responses))
             rest == process_feeds_batch(Tail(feeds), Tail(responses))
         IN IF url = <<>> \/ ~result.is_valid THEN rest
            ELSE <<BatchFeedData(url, result.metrics)>> \o rest

\* the rows that process_feeds_batch validates
Validated(feeds) == Cardinality({i \in 1..Len(feeds) : feeds[i].url # <<>>})

RunInit ==
    /\ rFeedsFile \in {"missing", "malformed", "present"}
    /\ rCsvFile \in {"missing", "present"}
    /\ rRows \in SeqUpTo(ManagerRows, MaxRunRows)
    /\ rExisting = <<>>
    /\ rFetched = 0
    /\ rOutput = NoOutput
    /\ rPc = "start"

\* main up to `if not podcastindex_raw: return`
LoadInputs ==
    /\ rPc = "start"
    /\ LET loaded == load_existing_feeds(rFeedsFile)
           podcastindex_raw == load_podcastindex_data(rCsvFile, rRows)
       IN /\ rExisting' = loaded.feeds
          /\ rPc' = IF loaded.raised THEN "aborted"
                    ELSE IF podcastindex_raw = <<>> THEN "returned"
                    ELSE "loaded"
    /\ UNCHANGED <<rFeedsFile, rCsvFile, rRows, rFetched, rOutput>>
    /\ UNCHANGED <<mergeVars, selectVars, scoreVars, filterVars, scalerVars,
                 managerVars, expanderVars, dedupVars, saveVars, predictVars,
                 uploadVars>>

\* main from clean_podcastindex_feeds to save_feeds
ValidateMergeSave ==
    /\ rPc = "loaded"
    /\ LET top_feeds == Take(clean_podcastindex_feeds(rRows), TopLimit)
       IN \E responses \in [1..Len(top_feeds) -> ManagerResponses] :
            /\ rFetched' = Validated(top_feeds)
            /\ rOutput' = MergeFeeds(rExisting, process_feeds_batch(top_feeds, responses),
                                     MainMaxFeeds)
    /\ rPc' = "saved"
    /\ UNCHANGED <<rFeedsFile, rCsvFile, rRows, rExisting>>
    /\ UNCHANGED <<mergeVars, selectVars, scoreVars, filterVars, scalerVars,
                 managerVars, expanderVars, dedupVars, saveVars, predictVars,
                 uploadVars>>

RunNext == LoadInputs \/ ValidateMergeSave

\* ------------------------------------------------------ properties of main
RunOver == rPc \in {"saved", "returned", "aborted"}

\* C21: a missing existing collection file or a missing candidate source is
\* fatal: the run ends without validating any candidate and without writing
\* any output collection.
C21_MissingInputIsFatal ==
    (rPc # "idle" /\ (rFeedsFile = "missing" \/ rCsvFile = "missing")) =>
        (rFetched = 0 /\ rOutput = NoOutput /\ rPc # "saved")

\* C21 for the candidate source alone, and for a feeds.json that does not parse
C21_MissingCandidatesStopTheRun ==
    (rPc # "idle" /\ (rCsvFile = "missing" \/ rFeedsFile = "malformed")) =>
        (rFetched = 0 /\ rOutput = NoOutput /\ rPc # "saved")

C21_StoppedWitness == rPc = "returned" /\ rCsvFile = "missing" /\ Len(rRows) > 0

\* ============================================== keyword-mode prediction
\* category_keywords of get_strategic_candidates, in declaration order
StrategicKeywords ==
    << [cat |-> "Technology", keywords |-> {"tech", "programming", "software", "ai", "startup", "coding", "developer"}],
       [cat |-> "Business", keywords |-> {"business", "entrepreneur", "startup", "marketing", "finance", "leadership"}],
       [cat |-> "News", keywords |-> {"news", "politics", "current", "journalism", "daily", "weekly"}],
       [cat |-> "Science", keywords |-> {"science", "research", "physics", "biology", "chemistry", "space"}],
       [cat |-> "Comedy", keywords |-> {"comedy", "humor", "funny", "laugh", "standup", "improv"}],
       [cat |-> "Health", keywords |-> {"health", "fitness", "wellness", "medical", "nutrition", "mental"}],
       [cat |-> "Sports", keywords |-> {"sports", "football", "basketball", "baseball", "soccer", "fitness"}],
       [cat |-> "Education", keywords |-> {"education", "learning", "teaching", "university", "academic"}],
       [cat |-> "True Crime", keywords |-> {"crime", "murder", "investigation", "detective", "mystery"}],
       [cat |-> "Music", keywords |-> {"music", "artist", "album", "song", "musician", "band"}],
       [cat |-> "History", keywords |-> {"history", "historical", "ancient", "war", "civilization"}],
       [cat |-> "Finance", keywords |-> {"finance", "money", "investing", "stocks", "crypto", "economy"}] >>

\* a row that get_strategic_candidates leaves out: no category scored
NoPrediction == [predicted_category |-> None, category_confidence |-> 0]

\* get_strategic_candidates, the scoring of one row: predicted_category and
\* category_confidence
predict_category(row) ==
    LET content == TitleDescLower(row)
        best == BestCategory(StrategicKeywords, content)
        entry == CHOOSE i \in 1..Len(StrategicKeywords) : StrategicKeywords[i].cat = best
    IN IF best = None THEN NoPrediction
       ELSE [predicted_category |-> best,
             category_confidence |-> KeywordScore(StrategicKeywords[entry].keywords, content)]

\* ---- inputs of the prediction
TitleWords == {"Startup", "Fitness", "Finance", "money", "daily", "war", "software", "Quiet"}

PredictInit ==
    /\ kRow \in { [title |-> t, description |-> d]
                    : t \in SeqUpTo(TitleWords, MaxTitleWords), d \in SeqUpTo(TitleWords, 1) }
    /\ kCategory = ""
    /\ kPredicted = NoPrediction
    /\ kPc = "start"

\* category = categorize_feed(row) and the scoring of the same row in
\* get_strategic_candidates
Predict ==
    /\ kPc = "start"
    /\ kCategory' = categorize_feed(kRow)
    /\ kPredicted' = predict_category(kRow)
    /\ kPc' = "predicted"
    /\ UNCHANGED kRow
    /\ UNCHANGED <<mergeVars, selectVars, scoreVars, filterVars, scalerVars,
                 managerVars, expanderVars, dedupVars, saveVars, runVars,
                 uploadVars>>

PredictNext == Predict

\* ---------------------------------------------- properties of the prediction
\* the number of keywords of entry i of a taxonomy that occur in the row's
\* lower-cased title and description
Hits(table, i) == Cardinality({kw \in table[i].keywords : kw \in KeywordsIn(TitleDescLower(kRow))})

\* entry i is the first of the entries of `table` with the most hits
FirstOfTheBest(table, i) ==
    /\ Hits(table, i) > 0
    /\ \A j \in 1..Len(table) : Hits(table, j) <= Hits(table, i)
    /\ \A j \in 1..(i - 1) : Hits(table, j) < Hits(table, i)

NoHits(table) == \A j \in 1..Len(table) : Hits(table, j) = 0

\* C24: keyword-mode prediction returns the category with the most keywords
\* occurring in the lower-cased title and description, the first-declared one
\* among those that tie for the highest count; when no keyword of any category
\* occurs categorize_feed returns General (and get_strategic_candidates sets
\* no predicted_category).
C24_MostKeywordsFirstDeclaredWins ==
    kPc = "predicted" =>
        /\ \/ NoHits(CategorizeKeywords) /\ kCategory = "General"
           \/ \E i \in 1..Len(CategorizeKeywords) :
                /\ FirstOfTheBest(CategorizeKeywords, i)
                /\ kCategory = CategorizeKeywords[i].cat
        /\ \/ NoHits(StrategicKeywords) /\ kPredicted = NoPrediction
           \/ \E i \in 1..Len(StrategicKeywords) :
                /\ FirstOfTheBest(StrategicKeywords, i)
                /\ kPredicted = [predicted_category |-> StrategicKeywords[i].cat,
                                 category_confidence |-> Hits(StrategicKeywords, i)]

\* a row in which Technology and Business tie (startup), won by Technology
C24_Witness ==
    /\ kPc = "predicted"
    /\ Hits(CategorizeKeywords, 1) = 1
    /\ Hits(CategorizeKeywords, 2) = 1
    /\ \A j \in 1..Len(CategorizeKeywords) : Hits(CategorizeKeywords, j) <= 1
    /\ kCategory = "Technology"
    /\ kPredicted = [predicted_category |-> "Technology", category_confidence |-> 1]

\* a later category wins on the count, and a row without any keyword
C24_CountWitness ==
    /\ kPc = "predicted"
    /\ kCategory = "Finance"
    /\ Hits(CategorizeKeywords, 12) = 2
    /\ Hits(CategorizeKeywords, 2) = 1
    /\ kPredicted = [predicted_category |-> "Finance", category_confidence |-> 2]

C24_GeneralWitness == kPc = "predicted" /\ kCategory = "General" /\ kPredicted = NoPrediction

\* ======================================================= update_podcasts.py
\* self.max_episodes_per_podcast
max_episodes_per_podcast == 50

\* the number of entries of the long feed
MaxUploadEntries == 51

\* what an entry or a record holds where a date can stand: nothing, the text
\* of a date, a text that is no date, a datetime object
NoDate == "None"
Datetime == "datetime"

\* PodcastProcessor.parse_date: None for an empty or an unreadable text, a
\* datetime for the text of a date
parse_date(date_str) ==
    IF date_str = "" THEN NoDate
    ELSE IF date_str = "junk" THEN NoDate
    ELSE Datetime

\* PodcastProcessor.extract_podcast_metadata: the url of the record and the
\* date of the first entry
extract_podcast_metadata(feed) ==
    [rss_url |-> "rss",
     latest_episode_date |->
        IF feed.count > 0 /\ EntryAt(feed, 1).published # ""
        THEN parse_date(EntryAt(feed, 1).published)
        ELSE NoDate]

\* PodcastProcessor.extract_episode_metadata
extract_episode_metadata(entry, podcast_id) ==
    [podcast_id |-> podcast_id, published_at |-> parse_date(entry.published)]

\* json.dumps of a record raises TypeError on a datetime
Serializable(data) == \A f \in DOMAIN data : data[f] # Datetime

\* SupabaseClient.upsert: requests.post(url, json=data, ...) builds the body
\* first; a RequestException is caught and gives False, any other exception
\* leaves the method
upsert(data, network) ==
    IF ~Serializable(data) THEN "raised"
    ELSE IF network = "ok" THEN "True"
    ELSE "False"

\* SupabaseClient.select: the rows of the answer, None on a RequestException
select(network) ==
    IF network = "error" THEN [none |-> TRUE, rows |-> <<>>]
    ELSE IF network = "empty" THEN [none |-> FALSE, rows |-> <<>>]
    ELSE [none |-> FALSE, rows |-> <<[id |-> "p1"]>>]

\* ---- inputs of process_podcast
UploadEntry(published) == [published |-> published]

UploadFeed(bozo, count, head, rest) ==
    [bozo |-> bozo, count |-> count, head |-> head, rest |-> UploadEntry(rest)]

\* a document that does not parse, an empty one, a long one without dates,
\* one whose first entry alone has no date, one with dates, one with
\* unreadable dates
UploadFeeds ==
    { UploadFeed(TRUE, 0, <<>>, ""),
      UploadFeed(FALSE, 0, <<>>, ""),
      UploadFeed(FALSE, MaxUploadEntries, <<>>, ""),
      UploadFeed(FALSE, 3, <<UploadEntry("")>>, "date"),
      UploadFeed(FALSE, 2, <<>>, "date"),
      UploadFeed(TRUE, 2, <<>>, "junk") }

UploadInit ==
    /\ uFeed \in UploadFeeds
    /\ uPodcast = "none"
    /\ uId = ""
    /\ uIdx = 0
    /\ uIssued = 0
    /\ uFailed = 0
    /\ uLast = "none"
    /\ uResult = "none"
    /\ uPc = "parse"

\* feed = feedparser.parse(rss_url); if feed.bozo and not feed.entries: return False
ParseFeed ==
    /\ uPc = "parse"
    /\ IF uFeed.bozo /\ uFeed.count = 0
       THEN uResult' = "False" /\ uPc' = "returned"
       ELSE uResult' = uResult /\ uPc' = "podcast"
    /\ UNCHANGED <<uFeed, uPodcast, uId, uIdx, uIssued, uFailed, uLast>>
    /\ UNCHANGED <<mergeVars, selectVars, scoreVars, filterVars, scalerVars,
                 managerVars, expanderVars, dedupVars, saveVars, runVars,
                 predictVars>>

\* if not self.supabase.upsert('podcasts', podcast_data, 'rss_url'): return
\* False; an exception gives False through `except Exception`
UpsertPodcast ==
    /\ uPc = "podcast"
    /\ \E network \in {"ok", "error"} :
        \E done \in {upsert(extract_podcast_metadata(uFeed), network)} :
            /\ uPodcast' = done
            /\ IF done = "True"
               THEN uResult' = uResult /\ uPc' = "select"
               ELSE uResult' = "False" /\ uPc' = "returned"
    /\ UNCHANGED <<uFeed, uId, uIdx, uIssued, uFailed, uLast>>
    /\ UNCHANGED <<mergeVars, selectVars, scoreVars, filterVars, scalerVars,
                 managerVars, expanderVars, dedupVars, saveVars, runVars,
                 predictVars>>

\* podcast_records = self.supabase.select(...); if not podcast_records:
\* return False; podcast_id = podcast_records[0]['id']
SelectId ==
    /\ uPc = "select"
    /\ \E network \in {"ok", "empty", "error"} :
        \E podcast_records \in {select(network)} :
            IF podcast_records.none \/ podcast_records.rows = <<>>
            THEN /\ uResult' = "False"
                 /\ uPc' = "returned"
                 /\ UNCHANGED <<uId, uIdx>>
            ELSE /\ uId' = podcast_records.rows[1].id
                 /\ uIdx' = 1
                 /\ uPc' = "episodes"
                 /\ uResult' = uResult
    /\ UNCHANGED <<uFeed, uPodcast, uIssued, uFailed, uLast>>
    /\ UNCHANGED <<mergeVars, selectVars, scoreVars, filterVars, scalerVars,
                 managerVars, expanderVars, dedupVars, saveVars, runVars,
                 predictVars>>

\* the entries the loop visits: feed.entries[:self.max_episodes_per_podcast]
EpisodesToVisit(feed) == Min(feed.count, max_episodes_per_podcast)

\* one turn of the loop over the entries: the upsert of the episode row; a
\* False is logged and the loop goes on, an exception ends the call with False
UpsertEpisode ==
    /\ uPc = "episodes"
    /\ uIdx <= EpisodesToVisit(uFeed)
    /\ \E network \in {"ok", "error"} :
        \E done \in {upsert(extract_episode_metadata(EntryAt(uFeed, uIdx), uId), network)} :
            /\ uLast' = done
            /\ uIssued' = uIssued + 1
            /\ uFailed' = IF done = "False" THEN uFailed + 1 ELSE uFailed
            /\ IF done = "raised"
               THEN uResult' = "False" /\ uPc' = "returned" /\ uIdx' = uIdx
               ELSE uResult' = uResult /\ uPc' = uPc /\ uIdx' = uIdx + 1
    /\ UNCHANGED <<uFeed, uPodcast, uId>>
    /\ UNCHANGED <<mergeVars, selectVars, scoreVars, filterVars, scalerVars,
                 managerVars, expanderVars, dedupVars, saveVars, runVars,
                 predictVars>>

\* the loop is over: return True
ReturnTrue ==
    /\ uPc = "episodes"
    /\ uIdx > EpisodesToVisit(uFeed)
    /\ uResult' = "True"
    /\ uPc' = "returned"
    /\ UNCHANGED <<uFeed, uPodcast, uId, uIdx, uIssued, uFailed, uLast>>
    /\ UNCHANGED <<mergeVars, selectVars, scoreVars, filterVars, scalerVars,
                 managerVars, expanderVars, dedupVars, saveVars, runVars,
                 predictVars>>

UploadNext == ParseFeed \/ UpsertPodcast \/ SelectId \/ UpsertEpisode \/ ReturnTrue

\* ------------------------------------------- properties of process_podcast
\* the feed is malformed with no entries
Malformed == uFeed.bozo /\ uFeed.count = 0

\* episode rows are upserted only after the podcast row was upserted and its
\* id read back, and never more than 50 of them
EpisodesAfterPodcastAndId ==
    /\ uIssued > 0 => (uPodcast = "True" /\ uId # "")
    /\ (Malformed \/ uPodcast \in {"False", "raised"} \/ uId = "") => uIssued = 0
    /\ (uPc = "returned" /\ (Malformed \/ uPodcast \in {"False", "raised"} \/ uId = "")) =>
          uResult = "False"
    /\ uIssued <= max_episodes_per_podcast

\* C30: in process_podcast episode rows are upserted only after the podcast
\* row upsert succeeded and the podcast id was read back; a malformed feed
\* with no entries, a failed podcast upsert or an empty id lookup give False
\* with no episode upsert; otherwise at most 50 episode upserts are issued
\* and a failed episode upsert does not make the call return False.
C30_EpisodesAfterPodcastFailuresTolerated ==
    /\ EpisodesAfterPodcastAndId
    /\ uIssued > 0 => uResult # "False"

\* what holds: an episode upsert that returns False is passed over, and the
\* call returns False after the id was read only when an episode upsert raised
C30_FalseEpisodeUpsertTolerated ==
    /\ EpisodesAfterPodcastAndId
    /\ (uIssued > 0 /\ uResult = "False") => uLast = "raised"
    /\ (uPc = "returned" /\ uId # "" /\ uLast # "raised") => uResult = "True"

\* fifty upserts of a feed of more entries, some of them failed, and True
C30_FiftyWitness ==
    /\ uResult = "True"
    /\ uFeed.count > max_episodes_per_podcast
    /\ uIssued = max_episodes_per_podcast
    /\ uFailed > 0

\* an episode upsert that raised after one that went through: False
C30_RaisedWitness ==
    /\ uResult = "False"
    /\ uIssued = 2
    /\ uLast = "raised"

\* the id lookup that returns nothing: False and no episode upsert
C30_NoIdWitness ==
    /\ uPc = "returned"
    /\ uPodcast = "True"
    /\ uId = ""
    /\ uResult = "False"
    /\ uIssued = 0

\* ------------------------------------------------ the parts that do not run
UploadIdle ==
    /\ uFeed = UploadFeed(FALSE, 0, <<>>, "")
    /\ uPodcast = "none"
    /\ uId = ""
    /\ uIdx = 0
    /\ uIssued = 0
    /\ uFailed = 0
    /\ uLast = "none"
    /\ uResult = "none"
    /\ uPc = "idle"

ManagerIdle ==
    /\ gRows = <<>>
    /\ gTop = <<>>
    /\ gIdx = 0
    /\ gLog = <<>>
    /\ gValidated = <<>>
    /\ gLast = NoManagerCall
    /\ gBatchSize = 0
    /\ gTrace = <<>>
    /\ gPc = "idle"

ExpanderIdle ==
    /\ xExisting = <<>>
    /\ xCandidates = <<>>
    /\ xTargetCount = 0
    /\ xMinScore = 0
    /\ xIdx = 0
    /\ xValidated = <<>>
    /\ xUrls = {}
    /\ xProcessed = 0
    /\ xLast = NoCall
    /\ xTrace = <<>>
    /\ xFaults = 0
    /\ xPc = "idle"

DedupIdle ==
    /\ dFeeds = <<>>
    /\ dDuplicates = {}
    /\ dPc = "idle"

PredictIdle ==
    /\ kRow = [title |-> <<>>, description |-> <<>>]
    /\ kCategory = ""
    /\ kPredicted = NoPrediction
    /\ kPc = "idle"

RunIdle ==
    /\ rFeedsFile = "missing"
    /\ rCsvFile = "missing"
    /\ rRows = <<>>
    /\ rExisting = <<>>
    /\ rFetched = 0
    /\ rOutput = <<>>
    /\ rPc = "idle"

SaveIdle ==
    /\ wFeeds = <<>>
    /\ wBefore = NoFile
    /\ wFile = NoFile
    /\ wWritten = 0
    /\ wPc = "idle"

\* ========================================================= specifications
MergeStart ==
    /\ MergeInit
    /\ SelectIdle /\ ScoreIdle /\ FilterIdle /\ ScalerIdle
    /\ ManagerIdle /\ ExpanderIdle /\ DedupIdle /\ SaveIdle
    /\ RunIdle /\ PredictIdle /\ UploadIdle

SpecMerge == MergeStart /\ [][MergeNext]_vars

SelectStart ==
    /\ SelectInit
    /\ MergeIdle /\ ScoreIdle /\ FilterIdle /\ ScalerIdle
    /\ ManagerIdle /\ ExpanderIdle /\ DedupIdle /\ SaveIdle
    /\ RunIdle /\ PredictIdle /\ UploadIdle

SpecSelect == SelectStart /\ [][SelectNext]_vars

ScoreStart ==
    /\ ScoreInit
    /\ MergeIdle /\ SelectIdle /\ FilterIdle /\ ScalerIdle
    /\ ManagerIdle /\ ExpanderIdle /\ DedupIdle /\ SaveIdle
    /\ RunIdle /\ PredictIdle /\ UploadIdle

SpecScore == ScoreStart /\ [][ScoreNext]_vars

RecencyStart ==
    /\ RecencyInit
    /\ MergeIdle /\ SelectIdle /\ FilterIdle /\ ScalerIdle
    /\ ManagerIdle /\ ExpanderIdle /\ DedupIdle /\ SaveIdle
    /\ RunIdle /\ PredictIdle /\ UploadIdle

SpecRecency == RecencyStart /\ [][ScoreNext]_vars

FilterStart ==
    /\ FilterInit
    /\ MergeIdle /\ SelectIdle /\ ScoreIdle /\ ScalerIdle
    /\ ManagerIdle /\ ExpanderIdle /\ DedupIdle /\ SaveIdle
    /\ RunIdle /\ PredictIdle /\ UploadIdle

SpecFilter == FilterStart /\ [][FilterNext]_vars

ScalerStart ==
    /\ ScalerInit
    /\ MergeIdle /\ SelectIdle /\ ScoreIdle /\ FilterIdle
    /\ ManagerIdle /\ ExpanderIdle /\ DedupIdle /\ SaveIdle
    /\ RunIdle /\ PredictIdle /\ UploadIdle

SpecScaler == ScalerStart /\ [][ScalerNext]_vars
ManagerStart ==
    /\ ManagerInit
    /\ MergeIdle /\ SelectIdle /\ ScoreIdle /\ FilterIdle
    /\ ScalerIdle /\ ExpanderIdle /\ DedupIdle /\ SaveIdle
    /\ RunIdle /\ PredictIdle /\ UploadIdle

SpecManager == ManagerStart /\ [][ManagerNext]_vars
ExpanderStart ==
    /\ ExpanderInit
    /\ MergeIdle /\ SelectIdle /\ ScoreIdle /\ FilterIdle
    /\ ScalerIdle /\ ManagerIdle /\ DedupIdle /\ SaveIdle
    /\ RunIdle /\ PredictIdle /\ UploadIdle

SpecExpander == ExpanderStart /\ [][ExpanderNext]_vars
DedupStart ==
    /\ DedupInit
    /\ MergeIdle /\ SelectIdle /\ ScoreIdle /\ FilterIdle
    /\ ScalerIdle /\ ManagerIdle /\ ExpanderIdle /\ SaveIdle
    /\ RunIdle /\ PredictIdle /\ UploadIdle

SpecDedup == DedupStart /\ [][DedupNext]_vars
SaveStart ==
    /\ SaveInit
    /\ MergeIdle /\ SelectIdle /\ ScoreIdle /\ FilterIdle
    /\ ScalerIdle /\ ManagerIdle /\ ExpanderIdle /\ DedupIdle
    /\ RunIdle /\ PredictIdle /\ UploadIdle

SpecSave == SaveStart /\ [][SaveNext]_vars
RunStart ==
    /\ RunInit
    /\ MergeIdle /\ SelectIdle /\ ScoreIdle /\ FilterIdle
    /\ ScalerIdle /\ ManagerIdle /\ ExpanderIdle /\ DedupIdle
    /\ SaveIdle /\ PredictIdle /\ UploadIdle

SpecRun == RunStart /\ [][RunNext]_vars
PredictStart ==
    /\ PredictInit
    /\ MergeIdle /\ SelectIdle /\ ScoreIdle /\ FilterIdle
    /\ ScalerIdle /\ ManagerIdle /\ ExpanderIdle /\ DedupIdle
    /\ SaveIdle /\ RunIdle /\ UploadIdle

SpecPredict == PredictStart /\ [][PredictNext]_vars

UploadStart ==
    /\ UploadInit
    /\ MergeIdle /\ SelectIdle /\ ScoreIdle /\ FilterIdle
    /\ ScalerIdle /\ ManagerIdle /\ ExpanderIdle /\ DedupIdle
    /\ SaveIdle /\ RunIdle /\ PredictIdle

SpecUpload == UploadStart /\ [][UploadNext]_vars

\* the selection as main calls it
MainSelectStart ==
    /\ SelectStart
    /\ sTargetTotal = TargetTotal

\* process_candidates of PremiumScaler as main calls it, with a target that
\* the candidates do not reach
MainScalerStart ==
    /\ ScalerStart
    /\ pTargetNew > MaxScalerCandidates

PassesStart ==
    \/ MainSelectStart
    \/ ExpanderStart
    \/ MainScalerStart

PassesNext == SelectNext \/ ExpanderNext \/ ScalerNext

SpecPasses == PassesStart /\ [][PassesNext]_vars

ValidatorsStart ==
    \/ ManagerStart
    \/ ExpanderStart
    \/ ScalerStart

SpecValidators == ValidatorsStart /\ [][ValidatorsNext]_vars
====
